---- MODULE Spec2Model ----
(***************************************************************************)
(* A model of the command execution core of ahab-gui:                      *)
(* commands/zero_trust_executor.py (ZeroTrustCommandExecutor, Spec) and    *)
(* commands/executor.py (CommandExecutor, SpecPlain).                      *)
(*                                                                         *)
(* Caller threads invoke execute / is_running / get_running_commands /     *)
(* kill / verify_system_health on one shared executor.  Every             *)
(* `with self._lock:` block of the source is one atomic action; the code   *)
(* between two lock blocks is split at each point where the thread blocks  *)
(* or where another thread can observe a difference.  Child processes and  *)
(* the per-run timeout watchdog thread are separate activities.            *)
(***************************************************************************)
EXTENDS Integers, Sequences, FiniteSets, TLC

\* Optional[int]: None is the empty set, an integer n is {n}.
NoneInt == {}

Some(n) == {n}

\* `process = None`; the Popen handles are 1..MaxProcs.
NoProcess == 0

\* No command: the thread is not inside execute.
NoCommand == <<>>

(* ----------------------------- bounds --------------------------------- *)

\* Number of Popen handles that can exist at the same time.
MaxProcs == 2

Pids == 1..MaxProcs

\* Caller threads sharing the executor.
Threads == {"t1", "t2", "t3"}

\* The environment failures: an OS call or a callback that raises, a stdout
\* pipe closed early or held open by a descendant of the child.
FaultKinds ==
    {"makefile_unreadable", "popen_fails", "callback_fails", "readline_raises",
     "wait_raises", "stderr_raises", "terminate_raises", "kill_raises",
     "pipe_held", "stdout_closed_early", "path_inaccessible"}

\* What one behaviour explores.  "race": two threads call execute, no
\* timeout elapses, the environment is reliable.  "timeout": one thread calls
\* execute, timeouts elapse, the environment is reliable.  A fault kind: as
\* "timeout", and failures of that kind happen, any number of times.
Scenarios == {"race", "timeout"} \cup FaultKinds

\* The threads that call execute.
Executors(sc) == IF sc \in {"race", "concurrent"} THEN {"t1", "t2"} ELSE {"t1"}

\* Whether the timeout of a run can elapse before the run ends.
TimeoutsElapse(sc) == sc # "race"

\* How a child ends when nobody of this program signals it: it exits with 0
\* or with a make error, or (outside "race") something else sends it SIGTERM
\* or SIGKILL.
EndCodes(sc) == IF sc = "race" THEN {0, 1} ELSE {0, 1, -15, -9}

\* The threads that call is_running, get_running_commands, kill and
\* verify_system_health.
Observers == {"t3"}

(* ------------------------- names and inputs --------------------------- *)

build == <<"b", "u", "i", "l", "d">>
test == <<"t", "e", "s", "t">>
nosuch == <<"n", "o", "p", "e">>
unsafe == <<"r", "m", " ", "-", "r", "f", " ", "/">>
empty == <<>>

\* The targets defined in the Makefile of ahab_path.
MakefileTargets == {build, test}

\* The values passed as `command` to execute.
CommandInputs == {build, test, nosuch, unsafe, empty}

\* The commands each thread passes to execute.  The two targets are
\* interchangeable, so the first thread runs only one of them; the second
\* thread passes valid targets only.
ExecuteInputs(t) == IF t = "t1" THEN CommandInputs \ {test} ELSE MakefileTargets

\* len(command) > 100 is rejected.
MaxCommandLen == 100

Lower ==
    {"a", "b", "c", "d", "e", "f", "g", "h", "i", "j", "k", "l", "m",
     "n", "o", "p", "q", "r", "s", "t", "u", "v", "w", "x", "y", "z"}

Upper ==
    {"A", "B", "C", "D", "E", "F", "G", "H", "I", "J", "K", "L", "M",
     "N", "O", "P", "Q", "R", "S", "T", "U", "V", "W", "X", "Y", "Z"}

Digits == {"0", "1", "2", "3", "4", "5", "6", "7", "8", "9"}

\* The character class [a-zA-Z0-9_-].
SafeChars == Lower \cup Upper \cup Digits \cup {"_", "-"}

\* re.match(r'^[a-zA-Z0-9_-]+$', command): `$` also matches just before one
\* trailing newline.
regex_match(command) ==
    LET n == Len(command)
        body == IF n > 0 /\ command[n] = "\n"
                THEN SubSeq(command, 1, n - 1)
                ELSE command
    IN  /\ Len(body) >= 1
        /\ \A i \in 1..Len(body) : body[i] \in SafeChars

\* A validator that accepts every string.
accept_any(command) == TRUE

validate_command(command) ==
    IF command = <<>>
    THEN FALSE
    ELSE IF ~regex_match(command)
    THEN FALSE
    ELSE IF Len(command) > MaxCommandLen
    THEN FALSE
    ELSE TRUE

\* A lookup that does not notice that the Makefile could not be read.
lookup_without_read_check(target, readable) == target \in MakefileTargets

\* open() of the Makefile may fail (readable = FALSE): the lookup answers False.
verify_makefile_target(target, readable) ==
    IF ~readable THEN FALSE ELSE target \in MakefileTargets

(* ------------------------------ state --------------------------------- *)

VARIABLES
    running_commands,  \* self._running_commands: name -> CommandState
    proc,              \* the child processes, by Popen handle
    pc,                \* where each caller thread is
    command,           \* execute's argument, per thread
    process,           \* execute's local `process`, per thread
    exit_code,         \* execute's local `exit_code`, per thread
    timeout_occurred,  \* execute's local `timeout_occurred`, per thread
    warnings,          \* execute's local `warnings`, per thread
    pending,           \* the exception propagating out of execute's try, per thread
    health,            \* verify_system_health's partial record, per thread
    ret,               \* what the step just taken returned or raised to its caller
    cancelled,         \* threads whose in-flight run has had kill(command) called on it
    scenario,          \* the scenario of this behaviour
    execution_history, \* self._execution_history: the records, oldest first
    record,            \* _record_execution's `record`, per thread
    sliced,            \* the value of self._execution_history[-max:] before it is stored, per thread
    next_record,       \* how many records have been built so far
    arg,               \* the value handed to _validate_command
    stdout_pipe,       \* the lines written to a child's stdout and not yet read, by handle
    emitted,           \* every line a child has written to its stdout, by handle
    output_lines,      \* execute's local `output_lines`, per thread
    line,              \* the loop variable `line` of execute's stdout loop, per thread
    delivered,         \* the arguments of the calls made to the callback of a run, per thread
    failed_calls,      \* which of these calls raised, per thread
    callback_warnings, \* how many "Callback failed" entries warnings holds, per thread
    request_executor   \* the CommandExecutor a request handler has constructed, per thread

\* The audit history and the validator's input.  Spec and SpecPlain follow
\* the registry and the processes and leave these alone: nothing in execute,
\* is_running, get_running_commands or kill reads the history.  SpecHistory
\* and SpecValidate follow them.
\* The lines of the children's stdout.  SpecStream follows them.
svars ==
    <<stdout_pipe, emitted, output_lines, line, delivered, failed_calls,
      callback_warnings>>

hvars ==
    <<execution_history, record, sliced, next_record, arg, svars,
      request_executor>>

vars ==
    <<running_commands, proc, pc, command, process, exit_code,
      timeout_occurred, warnings, pending, health, ret, cancelled, scenario,
      hvars>>

locals == <<command, process, exit_code, timeout_occurred, warnings, pending>>

Unborn ==
    [state |-> "unborn", returncode |-> NoneInt, stdout_open |-> FALSE,
     task |-> NoCommand, watchdog |-> "none", watchdog_fired |-> FALSE,
     watchdog_kill |-> FALSE, overdue |-> FALSE, stderr_buffered |-> 0,
     stderr_blocked |-> FALSE]

\* No public method returned in the step just taken.
NoReturn == [op |-> "none"]

NoHealth == [running_commands_count |-> 0]

\* Nothing has been handed to _validate_command.
NoArg == [type |-> "none"]

\* No line is held by the stdout loop.
NoLine == <<>>

\* No child has written anything and no run has read anything.
\* No request handler has constructed an executor.
NoExecutor == [constructed |-> FALSE, running_commands |-> <<>>]

WebIdle == request_executor = [t \in Threads |-> NoExecutor]

StreamIdle ==
    /\ stdout_pipe = [p \in Pids |-> <<>>]
    /\ emitted = [p \in Pids |-> <<>>]
    /\ output_lines = [t \in Threads |-> <<>>]
    /\ line = [t \in Threads |-> NoLine]
    /\ delivered = [t \in Threads |-> <<>>]
    /\ failed_calls = [t \in Threads |-> {}]
    /\ callback_warnings = [t \in Threads |-> 0]

Init ==
    /\ running_commands = <<>>
    /\ proc = [p \in Pids |-> Unborn]
    /\ pc = [t \in Threads |-> "idle"]
    /\ command = [t \in Threads |-> NoCommand]
    /\ process = [t \in Threads |-> NoProcess]
    /\ exit_code = [t \in Threads |-> NoneInt]
    /\ timeout_occurred = [t \in Threads |-> FALSE]
    /\ warnings = [t \in Threads |-> {}]
    /\ pending = [t \in Threads |-> "none"]
    /\ health = [t \in Threads |-> NoHealth]
    /\ ret = NoReturn
    /\ cancelled = {}
    /\ scenario \in Scenarios
    /\ execution_history = <<>>
    /\ record = [t \in Threads |-> 0]
    /\ sliced = [t \in Threads |-> <<>>]
    /\ StreamIdle
    /\ WebIdle
    /\ next_record = 0
    /\ arg = NoArg

(* ----------------------------- helpers -------------------------------- *)

\* del d[k]
Remove(d, k) == [x \in DOMAIN d \ {k} |-> d[x]]

\* d[k] = v
Put(d, k, v) == [x \in DOMAIN d \cup {k} |-> IF x = k THEN v ELSE d[x]]

\* A Popen handle nobody refers to any more, of a process that has exited, is
\* garbage: its slot is free again.
\* (The watchdog of an exited child only polls it and returns.)
Referenced(p, L, R) ==
    \/ \E t \in Threads : L[t] = p
    \/ \E c \in DOMAIN R : R[c].process = p

Collect(P, L, R) ==
    [p \in Pids |->
        IF P[p].state = "exited" /\ ~Referenced(p, L, R) THEN Unborn ELSE P[p]]

FreePids == {p \in Pids : proc[p].state = "unborn"}

(* ----------------------- CommandState / registry ---------------------- *)

CommandState(c, pid, handle) ==
    [command |-> c, running |-> TRUE, pid |-> pid, process |-> handle]

\* The plain CommandExecutor's test (executor.py, is_running): the flag alone.
flag_running(state) == state.running

\* CommandState.is_actually_running: poll() the handle.
is_actually_running(state) ==
    IF ~state.running \/ state.process = NoProcess
    THEN FALSE
    ELSE proc[state.process].state = "alive"

\* is_running's return value.
is_running_value(c) ==
    IF c \notin DOMAIN running_commands
    THEN FALSE
    ELSE is_actually_running(running_commands[c])

\* is_running's effect on the registry: a stale entry is deleted.
is_running_registry(c) ==
    IF c \in DOMAIN running_commands /\ ~is_actually_running(running_commands[c])
    THEN Remove(running_commands, c)
    ELSE running_commands

\* The plain CommandExecutor's list (executor.py, get_running_commands): every key.
registered_names == DOMAIN running_commands

\* get_running_commands: the survivors.
actually_running_names ==
    {c \in DOMAIN running_commands : is_actually_running(running_commands[c])}

get_running_commands_registry ==
    [c \in actually_running_names |-> running_commands[c]]

(* ------------------------------ results ------------------------------- *)

\* execute raised the exception e to its caller.
Raised(t, e) == [op |-> "execute", kind |-> "raised", error |-> e]

\* execute raised "Make target not found" for the name c; makefile_read tells
\* whether the Makefile could be read by the lookup.
TargetNotFound(t, c, readable) ==
    [op |-> "execute", kind |-> "raised", error |-> "UnknownTask",
     command |-> c, makefile_read |-> readable]

\* A critical failure that ignores verification.
critical_without_verification(r) ==
    \/ r.exit_code = NoneInt
    \/ r.timeout_occurred

\* ZeroTrustExecutionResult.has_critical_failure
has_critical_failure(r) ==
    \/ r.exit_code = NoneInt
    \/ r.timeout_occurred
    \/ ~r.verification_passed

\* Complete success that ignores the warnings.
successful_despite_warnings(r) ==
    /\ r.exit_code = Some(0)
    /\ ~r.timeout_occurred
    /\ r.verification_passed

\* ZeroTrustExecutionResult.is_completely_successful
is_completely_successful(r) ==
    /\ r.exit_code # NoneInt
    /\ r.exit_code = Some(0)
    /\ ~r.timeout_occurred
    /\ r.verification_passed
    /\ r.warnings = {}

\* A try without `except Exception`: the exception reaches the caller.
exception_reraise(exc) ==
    [caught |-> FALSE, exit_code |-> NoneInt, timeout_occurred |-> FALSE,
     warnings |-> {}]

\* An except clause that reports no exit code.
exception_exit_none(exc) ==
    [caught |-> TRUE, exit_code |-> NoneInt, timeout_occurred |-> FALSE,
     warnings |-> {"Execution error"}]

\* The except clauses of execute's try: what each does with an exception
\* raised by Popen or by the stdout loop.
exception_handler(exc) ==
    IF exc = "TimeoutExpired"
    THEN [caught |-> TRUE, exit_code |-> Some(124), timeout_occurred |-> TRUE,
          warnings |-> {"Command timed out"}]
    ELSE [caught |-> TRUE, exit_code |-> Some(1), timeout_occurred |-> FALSE,
          warnings |-> {"Execution error"}]

\* A check that takes only a missing exit code for a timeout.
timeout_check_none(code) == code = NoneInt

\* "Check if timeout occurred"
timeout_check(code) == code = NoneInt \/ code = Some(-15) \/ code = Some(-9)

\* success, as execute computes it.
success_of(code, timed_out) == code # NoneInt /\ code = Some(0) /\ ~timed_out

\* A verification step that searches the output whatever the exit code.
verification_any_exit(verify, success) ==
    IF verify = "none" THEN [passed |-> success, warnings |-> {}]
    ELSE IF verify = "found" THEN [passed |-> TRUE, warnings |-> {}]
    ELSE IF verify = "missing"
    THEN [passed |-> FALSE, warnings |-> {"Output verification failed"}]
    ELSE [passed |-> FALSE, warnings |-> {"Output verification error"}]

\* The verification step. verify is "none" when no pattern was given, else
\* what re.search does with the pattern on the output: "found", "missing",
\* or "error" when it raises.
verification(verify, success) ==
    IF verify # "none" /\ success
    THEN IF verify = "found"
         THEN [passed |-> TRUE, warnings |-> {}]
         ELSE IF verify = "missing"
         THEN [passed |-> FALSE, warnings |-> {"Output verification failed"}]
         ELSE [passed |-> FALSE, warnings |-> {"Output verification error"}]
    ELSE [passed |-> success, warnings |-> {}]

VerifyOutcomes == {"none", "found", "missing", "error"}

\* verify_output = None (or ''): no verification requested.
NoPattern == <<>>

\* The verify_output patterns: none, two literal words, an invalid regex.
Patterns == {NoPattern, <<"o", "k">>, <<"O", "K">>, <<"(">>}

\* The combined output of a run; a run without a child has printed nothing.
Outputs == {<<>>, <<"a", "l", "l", " ", "O", "k">>, <<"n", "o">>}

LowerSeq ==
    <<"a", "b", "c", "d", "e", "f", "g", "h", "i", "j", "k", "l", "m",
      "n", "o", "p", "q", "r", "s", "t", "u", "v", "w", "x", "y", "z">>

UpperSeq ==
    <<"A", "B", "C", "D", "E", "F", "G", "H", "I", "J", "K", "L", "M",
      "N", "O", "P", "Q", "R", "S", "T", "U", "V", "W", "X", "Y", "Z">>

\* re.IGNORECASE: letters are compared in lower case.
lower(ch) ==
    IF ch \in Upper
    THEN LowerSeq[CHOOSE i \in 1..26 : UpperSeq[i] = ch]
    ELSE ch

casefold(str) == [i \in 1..Len(str) |-> lower(str[i])]

\* The word occurs somewhere in the text.
Contains(text, word) ==
    \E i \in 0..(Len(text) - Len(word)) :
        SubSeq(text, i + 1, i + Len(word)) = word

\* re.compile of the pattern: a word of safe characters is a regex that
\* matches itself; "(" does not compile.
compiles(pattern) == \A i \in 1..Len(pattern) : pattern[i] \in SafeChars

\* re.search with re.IGNORECASE and no case folding at all.
re_search_exact(pattern, output) ==
    IF ~compiles(pattern) THEN "error"
    ELSE IF Contains(output, pattern) THEN "found"
    ELSE "missing"

\* re.search(verify_output, output, re.IGNORECASE | re.MULTILINE)
re_search(pattern, output) ==
    IF ~compiles(pattern) THEN "error"
    ELSE IF Contains(casefold(output), casefold(pattern)) THEN "found"
    ELSE "missing"

\* What the verification step meets for this pattern and this output.
verify_outcome(pattern, output) ==
    IF pattern = NoPattern THEN "none" ELSE re_search(pattern, output)

\* An environment failure of this kind happens in this step (failed).
Inject(kind, failed) == failed => scenario = kind

(* ------------------------------ execute ------------------------------- *)

\* Lines 254-264: validation, the is_running check (which evicts a stale
\* entry), the Makefile lookup.  Lines 266-293 set locals.
Execute_Call(t, c, readable) ==
    /\ pc[t] = "idle"
    /\ t \in Executors(scenario)
    /\ IF ~validate_command(c)
       THEN /\ ret' = Raised(t, "InvalidCommand")
            /\ UNCHANGED <<running_commands, proc, pc, command>>
       ELSE IF is_running_value(c)
       THEN /\ ret' = Raised(t, "AlreadyRunning")
            /\ UNCHANGED <<running_commands, proc, pc, command>>
       ELSE /\ Inject("makefile_unreadable", ~readable)
            /\ running_commands' = is_running_registry(c)
            /\ proc' = Collect(proc, process, running_commands')
            /\ IF ~verify_makefile_target(c, readable)
               THEN /\ ret' = TargetNotFound(t, c, readable)
                    /\ UNCHANGED <<pc, command>>
               ELSE /\ ret' = NoReturn
                    /\ pc' = [pc EXCEPT ![t] = "register"]
                    /\ command' = [command EXCEPT ![t] = c]
    /\ UNCHANGED <<process, exit_code, timeout_occurred, warnings, pending,
                   health, cancelled, scenario>>
    /\ UNCHANGED hvars

\* Lines 295-303: "Mark command as running".
register_registry(c) ==
    Put(running_commands, c, CommandState(c, NoProcess, NoProcess))

Execute_Register(t) ==
    /\ pc[t] = "register"
    /\ running_commands' = register_registry(command[t])
    /\ proc' = Collect(proc, process, running_commands')
    /\ pc' = [pc EXCEPT ![t] = "spawn"]
    /\ ret' = NoReturn
    /\ UNCHANGED <<locals, health, cancelled, scenario>>
    /\ UNCHANGED hvars

\* An exception escapes the body of the try: the matching except clause
\* runs, then the finally clause.
Throw(t, exc) ==
    LET h == exception_handler(exc)
    IN  /\ pc' = [pc EXCEPT ![t] = "finally"]
        /\ IF h.caught
           THEN /\ exit_code' = [exit_code EXCEPT ![t] = h.exit_code]
                /\ timeout_occurred' = [timeout_occurred EXCEPT ![t] = h.timeout_occurred]
                /\ warnings' = [warnings EXCEPT ![t] = @ \cup h.warnings]
                /\ UNCHANGED pending
           ELSE /\ pending' = [pending EXCEPT ![t] = exc]
                /\ UNCHANGED <<exit_code, timeout_occurred, warnings>>

NewProcess(c) ==
    [state |-> "alive", returncode |-> NoneInt, stdout_open |-> TRUE,
     task |-> c, watchdog |-> "none", watchdog_fired |-> FALSE,
     watchdog_kill |-> FALSE, overdue |-> FALSE, stderr_buffered |-> 0,
     stderr_blocked |-> FALSE]

Min(S) == CHOOSE x \in S : \A y \in S : x <= y

\* Lines 305-317: subprocess.Popen(['make', command], ...).
Execute_Popen(t, spawned) ==
    /\ pc[t] = "spawn"
    /\ Inject("popen_fails", ~spawned)
    /\ IF spawned
       THEN /\ FreePids # {}
            /\ proc' = [proc EXCEPT ![Min(FreePids)] = NewProcess(command[t])]
            /\ process' = [process EXCEPT ![t] = Min(FreePids)]
            /\ pc' = [pc EXCEPT ![t] = "update"]
            /\ UNCHANGED <<exit_code, timeout_occurred, warnings, pending>>
       ELSE /\ Throw(t, "OSError")
            /\ UNCHANGED <<proc, process>>
    /\ ret' = NoReturn
    /\ UNCHANGED <<running_commands, command, health, cancelled, scenario>>
    /\ UNCHANGED hvars

\* Lines 319-323: "Update process info", only if the entry is still there.
update_registry(c, p) ==
    IF c \in DOMAIN running_commands
    THEN [running_commands EXCEPT ![c].pid = p, ![c].process = p]
    ELSE running_commands

\* Lines 319-338: the update, then the watchdog thread is started.
Execute_Update(t) ==
    /\ pc[t] = "update"
    /\ running_commands' = update_registry(command[t], process[t])
    /\ proc' = Collect([proc EXCEPT ![process[t]].watchdog = "sleeping"],
                       process, running_commands')
    /\ pc' = [pc EXCEPT ![t] = "read"]
    /\ ret' = NoReturn
    /\ UNCHANGED <<locals, health, cancelled, scenario>>
    /\ UNCHANGED hvars

\* Lines 345-356: one line read from stdout and offered to the callback.
Execute_ReadLine(t, callback_ok) ==
    /\ pc[t] = "read"
    /\ proc[process[t]].stdout_open
    /\ Inject("callback_fails", ~callback_ok)
    /\ warnings' = [warnings EXCEPT ![t] =
                        IF callback_ok THEN @ ELSE @ \cup {"Callback failed"}]
    /\ ret' = NoReturn
    /\ UNCHANGED <<running_commands, proc, pc, command, process, exit_code,
                   timeout_occurred, pending, health, cancelled, scenario>>
    /\ UNCHANGED hvars

\* Lines 346-348: readline returns '' at end of file.
Execute_ReadEOF(t) ==
    /\ pc[t] = "read"
    /\ ~proc[process[t]].stdout_open
    /\ pc' = [pc EXCEPT ![t] = "wait"]
    /\ ret' = NoReturn
    /\ UNCHANGED <<running_commands, proc, locals, health, cancelled, scenario>>
    /\ UNCHANGED hvars

\* Line 346: readline itself raises (a decoding error in text mode).
Execute_ReadError(t) ==
    /\ pc[t] = "read"
    /\ proc[process[t]].stdout_open
    /\ Inject("readline_raises", TRUE)
    /\ Throw(t, "Exception")
    /\ ret' = NoReturn
    /\ UNCHANGED <<running_commands, proc, command, process, health, cancelled, scenario>>
    /\ UNCHANGED hvars

\* Lines 358-381: process.wait() returns once the child has exited, or
\* raises; stderr is read; then "Check if timeout occurred".
Execute_Wait(t, wait_ok, stderr_ok) ==
    LET code == IF wait_ok THEN proc[process[t]].returncode ELSE NoneInt
    IN  /\ pc[t] = "wait"
        /\ Inject("wait_raises", ~wait_ok)
        /\ Inject("stderr_raises", ~stderr_ok)
        /\ wait_ok => proc[process[t]].state = "exited"
        /\ exit_code' = [exit_code EXCEPT ![t] = code]
        /\ timeout_occurred' = [timeout_occurred EXCEPT ![t] = timeout_check(code)]
        /\ warnings' = [warnings EXCEPT ![t] =
                @ \cup (IF wait_ok THEN {} ELSE {"Process wait failed"})
                  \cup (IF stderr_ok THEN {} ELSE {"Failed to read stderr"})
                  \cup (IF timeout_check(code)
                        THEN {"Command may have been terminated due to timeout"}
                        ELSE {})]
        /\ pc' = [pc EXCEPT ![t] = "finally"]
        /\ ret' = NoReturn
        /\ UNCHANGED <<running_commands, proc, command, process, pending,
                       health, cancelled, scenario>>
        /\ UNCHANGED hvars

\* A finally clause that leaves the registry alone.
finally_keep(c) == running_commands

\* Lines 401-405: "Mark command as no longer running".
finally_registry(c) ==
    IF c \in DOMAIN running_commands
    THEN Remove(running_commands, c)
    ELSE running_commands

Execute_Finally(t) ==
    /\ pc[t] = "finally"
    /\ running_commands' = finally_registry(command[t])
    /\ proc' = Collect(proc, process, running_commands')
    /\ pc' = [pc EXCEPT ![t] = "finish"]
    /\ ret' = NoReturn
    /\ UNCHANGED <<locals, health, cancelled, scenario>>
    /\ UNCHANGED hvars

\* Lines 407-448: the final ZeroTrustExecutionResult.  Three fields are not
\* in the code's result and record what the run met: watchdog_fired (the
\* run's watchdog found the child alive when the timeout elapsed), spawned
\* (Popen returned a handle), and verify_output / output (the pattern asked
\* for and the combined output).
final_result(t, verify_output, output) ==
    LET success == success_of(exit_code[t], timeout_occurred[t])
        v == verification(verify_outcome(verify_output, output), success)
    IN  [op |-> "execute",
         kind |-> "returned",
         command |-> command[t],
         exit_code |-> exit_code[t],
         success |-> success,
         timeout_occurred |-> timeout_occurred[t],
         verification_passed |-> v.passed,
         warnings |-> warnings[t] \cup v.warnings,
         watchdog_fired |-> process[t] # NoProcess /\ proc[process[t]].watchdog_fired,
         spawned |-> process[t] # NoProcess,
         verify_output |-> verify_output,
         output |-> output]

\* Lines 407-456: the exception propagates, or the result is built and returned.
Execute_Finish(t, verify_output, output) ==
    /\ pc[t] = "finish"
    /\ output = <<>> <=> process[t] = NoProcess
    /\ ret' = IF pending[t] # "none"
              THEN Raised(t, pending[t])
              ELSE final_result(t, verify_output, output)
    /\ pc' = [pc EXCEPT ![t] = "idle"]
    /\ command' = [command EXCEPT ![t] = NoCommand]
    /\ process' = [process EXCEPT ![t] = NoProcess]
    /\ exit_code' = [exit_code EXCEPT ![t] = NoneInt]
    /\ timeout_occurred' = [timeout_occurred EXCEPT ![t] = FALSE]
    /\ warnings' = [warnings EXCEPT ![t] = {}]
    /\ pending' = [pending EXCEPT ![t] = "none"]
    /\ proc' = Collect(proc, process', running_commands)
    /\ cancelled' = cancelled \ {t}
    /\ UNCHANGED <<running_commands, health, scenario>>
    /\ UNCHANGED hvars

(* ------------------- the child processes, the watchdog ---------------- *)

\* The child p ends with returncode `code`.  Its stdout reaches end of file
\* unless a descendant of the child still holds the pipe (closes = FALSE).
\* Its watchdog is done: timeout_handler's poll() will find the child exited
\* and return without signalling it.
Exited(p, code, closes) ==
    [proc EXCEPT ![p].state = "exited",
                 ![p].returncode = Some(code),
                 ![p].watchdog = "done",
                 ![p].stdout_open = @ /\ ~closes]

\* The child exits by itself (0, 1) or is signalled from outside (-15, -9).
ProcExit(p, code, closes) ==
    /\ proc[p].state = "alive"
    /\ code \in EndCodes(scenario)
    /\ Inject("pipe_held", ~closes)
    /\ proc' = Collect(Exited(p, code, closes), process, running_commands)
    /\ ret' = NoReturn
    /\ UNCHANGED <<running_commands, pc, locals, health, cancelled, scenario>>
    /\ UNCHANGED hvars

\* The last holder of the stdout pipe closes it.
ProcCloseStdout(p) ==
    /\ proc[p].state # "unborn"
    /\ proc[p].stdout_open
    /\ Inject("stdout_closed_early", proc[p].state = "alive")
    /\ proc' = [proc EXCEPT ![p].stdout_open = FALSE]
    /\ ret' = NoReturn
    /\ UNCHANGED <<running_commands, pc, locals, health, cancelled, scenario>>
    /\ UNCHANGED hvars

\* How a live child answers terminate(): it dies of SIGTERM, or it handles
\* the signal and lives on, or terminate() itself raises.
TerminateOutcomes == {"dies", "survives", "raises"}

\* A watchdog that does not poll before it signals.
poll_ignored(p) == TRUE

\* timeout_handler, lines 328 and 332: process.poll() is None.
poll_is_none(p) == proc[p].state = "alive"

\* timeout_handler, lines 326-335, after time.sleep(timeout): poll, terminate.
\* watchdog_fired records that terminate() was called.
WatchdogTimeout(p, outcome, closes) ==
    /\ proc[p].watchdog = "sleeping"
    /\ TimeoutsElapse(scenario)
    /\ IF ~poll_is_none(p)
       THEN /\ proc' = Collect([proc EXCEPT ![p].watchdog = "done"],
                               process, running_commands)
       ELSE IF outcome = "dies"
       THEN /\ Inject("pipe_held", ~closes)
            /\ proc' = Collect([Exited(p, -15, closes) EXCEPT
                                    ![p].watchdog_fired = TRUE],
                               process, running_commands)
       ELSE IF outcome = "survives"
       THEN /\ proc' = [proc EXCEPT ![p].watchdog = "grace",
                                    ![p].watchdog_fired = TRUE]
       ELSE /\ Inject("terminate_raises", TRUE)
            /\ proc' = [proc EXCEPT ![p].watchdog = "done",
                                    ![p].watchdog_fired = TRUE]
    /\ ret' = NoReturn
    /\ UNCHANGED <<running_commands, pc, locals, health, cancelled, scenario>>
    /\ UNCHANGED hvars

\* timeout_handler, lines 331-335, after time.sleep(5): poll, kill; kill()
\* ends the child or raises (killed = FALSE), which line 334 catches.
\* watchdog_kill records that kill() was called.
WatchdogGrace(p, killed, closes) ==
    /\ proc[p].watchdog = "grace"
    /\ IF ~poll_is_none(p)
       THEN /\ proc' = Collect([proc EXCEPT ![p].watchdog = "done"],
                               process, running_commands)
       ELSE IF killed
       THEN /\ Inject("pipe_held", ~closes)
            /\ proc' = Collect([Exited(p, -9, closes) EXCEPT
                                    ![p].watchdog_kill = TRUE],
                               process, running_commands)
       ELSE /\ Inject("kill_raises", TRUE)
            /\ proc' = [proc EXCEPT ![p].watchdog = "done",
                                    ![p].watchdog_kill = TRUE]
    /\ ret' = NoReturn
    /\ UNCHANGED <<running_commands, pc, locals, health, cancelled, scenario>>
    /\ UNCHANGED hvars

\* The child exits by itself while its watchdog is still asleep: the
\* watchdog thread stays as it is until its sleep ends.
ProcExitBeforeWakeup(p, code) ==
    /\ proc[p].state = "alive"
    /\ proc[p].watchdog \in {"sleeping", "grace"}
    /\ proc' = Collect([proc EXCEPT ![p].state = "exited",
                                    ![p].returncode = Some(code),
                                    ![p].stdout_open = FALSE],
                       process, running_commands)
    /\ ret' = NoReturn
    /\ UNCHANGED <<running_commands, pc, locals, health, cancelled, scenario>>
    /\ UNCHANGED hvars

(* ------------------ is_running, get_running_commands ------------------ *)

\* The commands the callers ask about.
ObservedCommands == MakefileTargets

\* is_running, lines 458-479.
IsRunning(t, c) ==
    /\ pc[t] = "idle"
    /\ ret' = [op |-> "is_running", command |-> c,
               value |-> is_running_value(c)]
    /\ running_commands' = is_running_registry(c)
    /\ proc' = Collect(proc, process, running_commands')
    /\ UNCHANGED <<pc, locals, health, cancelled, scenario>>
    /\ UNCHANGED hvars

\* get_running_commands, lines 481-502.
GetRunningCommands(t) ==
    /\ pc[t] = "idle"
    /\ ret' = [op |-> "get_running_commands",
               value |-> actually_running_names]
    /\ running_commands' = get_running_commands_registry
    /\ proc' = Collect(proc, process, running_commands')
    /\ UNCHANGED <<pc, locals, health, cancelled, scenario>>
    /\ UNCHANGED hvars

(* -------------------------------- kill -------------------------------- *)

\* A clean-up that empties the registry.
kill_clear(c) == <<>>

\* "Clean up state": del self._running_commands[command].
kill_cleanup(c) == Remove(running_commands, c)

\* What terminate / wait(timeout=5) / kill / wait do to a live child:
\* terminate() or kill() raises; the child dies of SIGTERM; it handles SIGTERM
\* and exits by itself within 5 s with 0 or 1; it is still alive after 5 s and
\* is killed.
KillOutcomes == {"raises", "terminated", "exit0", "exit1", "killed"}

kill_returncode(outcome) ==
    IF outcome = "terminated" THEN -15
    ELSE IF outcome = "exit0" THEN 0
    ELSE IF outcome = "exit1" THEN 1
    ELSE -9

\* The pcs of execute between its registration and the end of its try body.
InFlightPcs == {"spawn", "update", "read", "wait"}

InFlight(c) == {u \in Threads : pc[u] \in InFlightPcs /\ command[u] = c}

\* kill, lines 504-547.
Kill(t, c, outcome, closes) ==
    /\ pc[t] = "idle"
    /\ cancelled' = cancelled \cup InFlight(c)
    /\ IF c \notin DOMAIN running_commands
       THEN /\ outcome = "terminated" /\ closes
            /\ ret' = [op |-> "kill", command |-> c, value |-> FALSE]
            /\ UNCHANGED <<running_commands, proc>>
       ELSE IF running_commands[c].process = NoProcess
       THEN /\ outcome = "terminated" /\ closes
            /\ ret' = [op |-> "kill", command |-> c, value |-> FALSE]
            /\ running_commands' = kill_cleanup(c)
            /\ UNCHANGED <<proc>>
       ELSE LET p == running_commands[c].process
                hit == outcome # "raises" /\ proc[p].state = "alive"
            IN  /\ Inject("kill_raises", outcome = "raises")
                /\ Inject("pipe_held", hit /\ ~closes)
                /\ running_commands' = kill_cleanup(c)
                /\ ret' = [op |-> "kill", command |-> c,
                           value |-> outcome # "raises"]
                /\ proc' = Collect(
                       IF hit
                       THEN Exited(p, kill_returncode(outcome), closes)
                       ELSE proc,
                       process, running_commands')
    /\ UNCHANGED <<pc, locals, health, scenario>>
                /\ UNCHANGED hvars

(* ------------------------ verify_system_health ------------------------ *)

\* Lines 563-569: the paths are checked and get_running_commands() is called.
HealthList(t) ==
    /\ pc[t] = "idle"
    /\ health' = [health EXCEPT ![t] =
                      [running_commands_count |-> Cardinality(actually_running_names)]]
    /\ running_commands' = get_running_commands_registry
    /\ proc' = Collect(proc, process, running_commands')
    /\ pc' = [pc EXCEPT ![t] = "health_stale"]
    /\ ret' = NoReturn
    /\ UNCHANGED <<locals, cancelled, scenario>>
    /\ UNCHANGED hvars

stale_processes ==
    Cardinality({c \in DOMAIN running_commands :
                    ~is_actually_running(running_commands[c])})

\* Lines 571-585: the stale entries are counted under the lock.
HealthStale(t, accessible) ==
    /\ pc[t] = "health_stale"
    /\ Inject("path_inaccessible", ~accessible)
    /\ ret' = [op |-> "verify_system_health",
               running_commands_count |-> health[t].running_commands_count,
               stale_processes |-> stale_processes,
               healthy |-> accessible /\ stale_processes = 0]
    /\ health' = [health EXCEPT ![t] = NoHealth]
    /\ pc' = [pc EXCEPT ![t] = "idle"]
    /\ UNCHANGED <<running_commands, proc, locals, cancelled, scenario>>
    /\ UNCHANGED hvars

(* --------------- commands/executor.py: CommandExecutor ---------------- *)

\* The scenarios explored for the plain CommandExecutor.
PlainScenarios ==
    {"race", "timeout", "popen_fails", "callback_fails", "kill_raises",
     "pipe_held", "stdout_closed_early"}

PlainInit ==
    /\ running_commands = <<>>
    /\ proc = [p \in Pids |-> Unborn]
    /\ pc = [t \in Threads |-> "idle"]
    /\ command = [t \in Threads |-> NoCommand]
    /\ process = [t \in Threads |-> NoProcess]
    /\ exit_code = [t \in Threads |-> NoneInt]
    /\ timeout_occurred = [t \in Threads |-> FALSE]
    /\ warnings = [t \in Threads |-> {}]
    /\ pending = [t \in Threads |-> "none"]
    /\ health = [t \in Threads |-> NoHealth]
    /\ ret = NoReturn
    /\ cancelled = {}
    /\ scenario \in PlainScenarios
    /\ execution_history = <<>>
    /\ record = [t \in Threads |-> 0]
    /\ sliced = [t \in Threads |-> <<>>]
    /\ StreamIdle
    /\ WebIdle
    /\ next_record = 0
    /\ arg = NoArg

\* CommandExecutor.is_running: the key and the flag.
plain_is_running(c) ==
    c \in DOMAIN running_commands /\ running_commands[c].running

\* execute, lines 80-82: the check; there is no validation and no lookup.
CommandExecutor_Call(t, c) ==
    /\ pc[t] = "idle"
    /\ t \in Executors(scenario)
    /\ IF plain_is_running(c)
       THEN /\ ret' = Raised(t, "ValueError")
            /\ UNCHANGED <<pc, command>>
       ELSE /\ ret' = NoReturn
            /\ pc' = [pc EXCEPT ![t] = "register"]
            /\ command' = [command EXCEPT ![t] = c]
    /\ UNCHANGED <<running_commands, proc, process, exit_code, timeout_occurred,
                   warnings, pending, health, cancelled, scenario>>
    /\ UNCHANGED hvars

\* execute, lines 88-96: "Mark command as running".
CommandExecutor_Register(t) ==
    /\ pc[t] = "register"
    /\ running_commands' =
           Put(running_commands, command[t],
               CommandState(command[t], NoProcess, NoProcess))
    /\ proc' = Collect(proc, process, running_commands')
    /\ pc' = [pc EXCEPT ![t] = "spawn"]
    /\ ret' = NoReturn
    /\ UNCHANGED <<locals, health, cancelled, scenario>>
    /\ UNCHANGED hvars

\* An exception leaves the try: only the finally clause runs, then the
\* exception reaches the caller.
PlainThrow(t, exc) ==
    /\ pc' = [pc EXCEPT ![t] = "finally"]
    /\ pending' = [pending EXCEPT ![t] = exc]

\* execute, lines 100-108: subprocess.Popen.
CommandExecutor_Popen(t, spawned) ==
    /\ pc[t] = "spawn"
    /\ Inject("popen_fails", ~spawned)
    /\ IF spawned
       THEN /\ FreePids # {}
            /\ proc' = [proc EXCEPT ![Min(FreePids)] = NewProcess(command[t])]
            /\ process' = [process EXCEPT ![t] = Min(FreePids)]
            /\ pc' = [pc EXCEPT ![t] = "update"]
            /\ UNCHANGED pending
       ELSE /\ PlainThrow(t, "OSError")
            /\ UNCHANGED <<proc, process>>
    /\ ret' = NoReturn
    /\ UNCHANGED <<running_commands, command, exit_code, timeout_occurred,
                   warnings, health, cancelled, scenario>>
    /\ UNCHANGED hvars

\* execute, lines 110-114: "Update process info".
CommandExecutor_Update(t) ==
    /\ pc[t] = "update"
    /\ running_commands' = update_registry(command[t], process[t])
    /\ proc' = Collect(proc, process, running_commands')
    /\ pc' = [pc EXCEPT ![t] = "read"]
    /\ ret' = NoReturn
    /\ UNCHANGED <<locals, health, cancelled, scenario>>
    /\ UNCHANGED hvars

\* execute, lines 117-120: one line of output; a callback that raises ends
\* the try.
CommandExecutor_ReadLine(t, callback_ok) ==
    /\ pc[t] = "read"
    /\ proc[process[t]].stdout_open
    /\ Inject("callback_fails", ~callback_ok)
    /\ IF callback_ok
       THEN UNCHANGED <<pc, pending>>
       ELSE PlainThrow(t, "Exception")
    /\ ret' = NoReturn
    /\ UNCHANGED <<running_commands, proc, command, process, exit_code,
                   timeout_occurred, warnings, health, cancelled, scenario>>
    /\ UNCHANGED hvars

\* execute, line 117: the loop over stdout ends at end of file.
CommandExecutor_ReadEOF(t) ==
    /\ pc[t] = "read"
    /\ ~proc[process[t]].stdout_open
    /\ pc' = [pc EXCEPT ![t] = "wait"]
    /\ ret' = NoReturn
    /\ UNCHANGED <<running_commands, proc, locals, health, cancelled, scenario>>
    /\ UNCHANGED hvars

\* execute, lines 123-131: process.wait(timeout) returns the exit code of an
\* exited child; for a child still alive after the timeout it raises
\* TimeoutExpired: the child is killed, waited for, and the exception re-raised.
CommandExecutor_Wait(t) ==
    /\ pc[t] = "wait"
    /\ IF proc[process[t]].state = "exited"
       THEN /\ exit_code' = [exit_code EXCEPT ![t] = proc[process[t]].returncode]
            /\ pc' = [pc EXCEPT ![t] = "finally"]
            /\ UNCHANGED <<proc, pending>>
       ELSE /\ TimeoutsElapse(scenario)
            /\ proc' = Exited(process[t], -9, TRUE)
            /\ PlainThrow(t, "TimeoutExpired")
            /\ UNCHANGED exit_code
    /\ ret' = NoReturn
    /\ UNCHANGED <<running_commands, command, process, timeout_occurred,
                   warnings, health, cancelled, scenario>>
    /\ UNCHANGED hvars

\* execute, lines 133-137: "Mark command as no longer running".
CommandExecutor_Finally(t) ==
    /\ pc[t] = "finally"
    /\ running_commands' = finally_registry(command[t])
    /\ proc' = Collect(proc, process, running_commands')
    /\ pc' = [pc EXCEPT ![t] = "finish"]
    /\ ret' = NoReturn
    /\ UNCHANGED <<locals, health, cancelled, scenario>>
    /\ UNCHANGED hvars

\* execute, lines 139-149: the ExecutionResult, or the exception.
CommandExecutor_Finish(t) ==
    /\ pc[t] = "finish"
    /\ ret' = IF pending[t] # "none"
              THEN Raised(t, pending[t])
              ELSE [op |-> "execute", kind |-> "returned",
                    command |-> command[t], exit_code |-> exit_code[t],
                    success |-> exit_code[t] = Some(0)]
    /\ pc' = [pc EXCEPT ![t] = "idle"]
    /\ command' = [command EXCEPT ![t] = NoCommand]
    /\ process' = [process EXCEPT ![t] = NoProcess]
    /\ exit_code' = [exit_code EXCEPT ![t] = NoneInt]
    /\ pending' = [pending EXCEPT ![t] = "none"]
    /\ proc' = Collect(proc, process', running_commands)
    /\ cancelled' = cancelled \ {t}
    /\ UNCHANGED <<running_commands, timeout_occurred, warnings, health, scenario>>
    /\ UNCHANGED hvars

\* self.timeout seconds have passed since the child p was started; it is
\* still running and its execute call is still in the try block.  Nothing in
\* execute waits for this moment: overdue is a record of the time passed,
\* not of a step of the code.
ProcOverdue(p) ==
    /\ TimeoutsElapse(scenario)
    /\ proc[p].state = "alive"
    /\ \E t \in Threads : process[t] = p /\ pc[t] \in {"update", "read", "wait"}
    /\ ~proc[p].overdue
    /\ proc' = [proc EXCEPT ![p].overdue = TRUE]
    /\ ret' = NoReturn
    /\ UNCHANGED <<running_commands, pc, locals, health, cancelled, scenario>>
    /\ UNCHANGED hvars

\* is_running, lines 151-161.
CommandExecutor_IsRunning(t, c) ==
    /\ pc[t] = "idle"
    /\ ret' = [op |-> "is_running", command |-> c, value |-> plain_is_running(c)]
    /\ UNCHANGED <<running_commands, proc, pc, locals, health, cancelled, scenario>>
    /\ UNCHANGED hvars

\* get_running_commands, lines 163-170: the keys.
CommandExecutor_GetRunningCommands(t) ==
    /\ pc[t] = "idle"
    /\ ret' = [op |-> "get_running_commands", value |-> DOMAIN running_commands]
    /\ UNCHANGED <<running_commands, proc, pc, locals, health, cancelled, scenario>>
    /\ UNCHANGED hvars

\* kill, lines 172-194: kill() and wait() on the handle; the entry is left
\* for execute's finally clause.
CommandExecutor_Kill(t, c, raises, closes) ==
    /\ pc[t] = "idle"
    /\ cancelled' = cancelled \cup InFlight(c)
    /\ IF c \notin DOMAIN running_commands
          \/ running_commands[c].process = NoProcess
       THEN /\ ~raises /\ closes
            /\ ret' = [op |-> "kill", command |-> c, value |-> FALSE]
            /\ UNCHANGED proc
       ELSE LET p == running_commands[c].process
                hit == ~raises /\ proc[p].state = "alive"
            IN  /\ Inject("kill_raises", raises)
                /\ Inject("pipe_held", hit /\ ~closes)
                /\ ret' = [op |-> "kill", command |-> c, value |-> ~raises]
                /\ proc' = IF hit THEN Exited(p, -9, closes) ELSE proc
    /\ UNCHANGED <<running_commands, pc, locals, health, scenario>>
                /\ UNCHANGED hvars

(* ------------------------ the execution history ----------------------- *)

\* self._max_history
max_history == 100

\* Runs recorded in one behaviour of "sequential".
MaxRuns == 150

\* Runs recorded on top of the initial history in one behaviour of "concurrent".
MaxConcurrentRuns == 3

\* Runs recorded in one behaviour of "popen_fails" and of "timeout".
MaxFailedRuns == 2

\* "sequential": one thread runs execute again and again on a new executor.
\* "concurrent": two threads run different tasks on an executor whose history
\* already holds max_history - 1 records.  In both the runs succeed.
\* "popen_fails": one thread, Popen may raise.  "timeout": one thread, the
\* child may fail, the timeout may elapse, another caller may kill the run.
HistoryScenarios == {"sequential", "concurrent", "popen_fails", "timeout"}

HistoryStart(sc) == IF sc = "concurrent" THEN max_history - 1 ELSE 0

RunLimit(sc) ==
    IF sc = "concurrent" THEN HistoryStart(sc) + MaxConcurrentRuns
    ELSE IF sc = "sequential" THEN MaxRuns
    ELSE MaxFailedRuns

\* How a child ends by itself while the history is followed.
HistoryEndCodes(sc) == IF sc = "timeout" THEN {0, 1} ELSE {0}

\* The record _record_execution builds from a result; seq is the position of
\* the record among all records ever appended.
HistoryRecord(n, c, code) ==
    [seq |-> n, command |-> c, exit_code |-> code,
     success |-> code = Some(0), timeout_occurred |-> FALSE,
     verification_passed |-> code = Some(0), warnings_count |-> 0]

\* lst[:n]
FirstN(lst, n) == IF Len(lst) <= n THEN lst ELSE SubSeq(lst, 1, n)

\* lst[-n:]
LastN(lst, n) ==
    IF Len(lst) <= n THEN lst ELSE SubSeq(lst, Len(lst) - n + 1, Len(lst))

HistoryInit ==
    /\ running_commands = <<>>
    /\ proc = [p \in Pids |-> Unborn]
    /\ pc = [t \in Threads |-> "idle"]
    /\ command = [t \in Threads |-> NoCommand]
    /\ process = [t \in Threads |-> NoProcess]
    /\ exit_code = [t \in Threads |-> NoneInt]
    /\ timeout_occurred = [t \in Threads |-> FALSE]
    /\ warnings = [t \in Threads |-> {}]
    /\ pending = [t \in Threads |-> "none"]
    /\ health = [t \in Threads |-> NoHealth]
    /\ ret = NoReturn
    /\ cancelled = {}
    /\ scenario \in HistoryScenarios
    /\ execution_history =
           [i \in 1..HistoryStart(scenario) |-> HistoryRecord(i, build, Some(0))]
    /\ record = [t \in Threads |-> 0]
    /\ sliced = [t \in Threads |-> <<>>]
    /\ StreamIdle
    /\ WebIdle
    /\ next_record = HistoryStart(scenario)
    /\ arg = NoArg

\* The names each thread passes to execute while the history is followed.
HistoryInputs(t) ==
    IF t = "t1" THEN {build, nosuch, unsafe, empty} ELSE {test, build}

\* Runs started and not yet recorded.
Unrecorded ==
    Cardinality({t \in Threads :
                    pc[t] \in {"register", "spawn", "update", "read", "wait",
                               "finally", "finish"}})

\* execute is called; the number of runs of a behaviour is limited.
History_Call(t, c) ==
    /\ next_record + Unrecorded < RunLimit(scenario)
    /\ Execute_Call(t, c, TRUE)

\* Lines 216-225: the record of the result of thread t's run, without a
\* verification pattern.
record_of(n, t) ==
    LET success == success_of(exit_code[t], timeout_occurred[t])
    IN  [seq |-> n, command |-> command[t], exit_code |-> exit_code[t],
         success |-> success, timeout_occurred |-> timeout_occurred[t],
         verification_passed |-> verification("none", success).passed,
         warnings_count |-> Cardinality(warnings[t])]

\* Lines 407-451 and 215-227: an exception left by the try reaches the
\* caller; otherwise the result is built, _record_execution builds the record
\* and appends it.
Record_Append(t) ==
    /\ pc[t] = "finish"
    /\ IF pending[t] # "none"
       THEN /\ ret' = Raised(t, pending[t])
            /\ pc' = [pc EXCEPT ![t] = "idle"]
            /\ command' = [command EXCEPT ![t] = NoCommand]
            /\ process' = [process EXCEPT ![t] = NoProcess]
            /\ pending' = [pending EXCEPT ![t] = "none"]
            /\ proc' = Collect(proc, process', running_commands)
            /\ UNCHANGED <<next_record, record, execution_history>>
       ELSE /\ next_record' = next_record + 1
            /\ record' = [record EXCEPT ![t] = next_record + 1]
            /\ execution_history' =
                   Append(execution_history, record_of(next_record + 1, t))
            /\ pc' = [pc EXCEPT ![t] = "check"]
            /\ ret' = NoReturn
            /\ UNCHANGED <<proc, command, process, pending>>
    /\ UNCHANGED <<running_commands, exit_code, timeout_occurred, warnings,
                   health, cancelled, scenario, sliced, arg, svars,
                   request_executor>>

\* Line 230: if len(self._execution_history) > self._max_history
Record_Check(t) ==
    /\ pc[t] = "check"
    /\ pc' = [pc EXCEPT ![t] =
                 IF Len(execution_history) > max_history THEN "slice" ELSE "return"]
    /\ ret' = NoReturn
    /\ UNCHANGED <<running_commands, proc, locals, health, cancelled, scenario, hvars>>

\* Line 231, right-hand side: self._execution_history[-self._max_history:]
Record_Slice(t) ==
    /\ pc[t] = "slice"
    /\ sliced' = [sliced EXCEPT ![t] = LastN(execution_history, max_history)]
    /\ pc' = [pc EXCEPT ![t] = "assign"]
    /\ ret' = NoReturn
    /\ UNCHANGED <<running_commands, proc, locals, health, cancelled, scenario,
                   execution_history, record, next_record, arg, svars,
                   request_executor>>

\* Line 231, the assignment: self._execution_history = <the slice>
Record_Assign(t) ==
    /\ pc[t] = "assign"
    /\ execution_history' = sliced[t]
    /\ sliced' = [sliced EXCEPT ![t] = <<>>]
    /\ pc' = [pc EXCEPT ![t] = "return"]
    /\ ret' = NoReturn
    /\ UNCHANGED <<running_commands, proc, locals, health, cancelled, scenario,
                   record, next_record, arg, svars,
                   request_executor>>

\* Lines 453-456: execute returns the result; recorded is the seq of its record.
Execute_Return(t) ==
    /\ pc[t] = "return"
    /\ ret' = [op |-> "execute", kind |-> "returned", command |-> command[t],
               exit_code |-> exit_code[t],
               timeout_occurred |-> timeout_occurred[t],
               warnings |-> warnings[t], recorded |-> record[t]]
    /\ pc' = [pc EXCEPT ![t] = "idle"]
    /\ command' = [command EXCEPT ![t] = NoCommand]
    /\ process' = [process EXCEPT ![t] = NoProcess]
    /\ exit_code' = [exit_code EXCEPT ![t] = NoneInt]
    /\ timeout_occurred' = [timeout_occurred EXCEPT ![t] = FALSE]
    /\ warnings' = [warnings EXCEPT ![t] = {}]
    /\ record' = [record EXCEPT ![t] = 0]
    /\ proc' = Collect(proc, process', running_commands)
    /\ cancelled' = cancelled \ {t}
    /\ UNCHANGED <<running_commands, pending, health, scenario,
                   execution_history, sliced, next_record, arg, svars,
                   request_executor>>

\* The child ends by itself.
History_ProcExit(p, code) ==
    /\ code \in HistoryEndCodes(scenario)
    /\ ProcExit(p, code, TRUE)

\* The timeout of a run elapses, in "timeout" only.
History_WatchdogTimeout(p, outcome) ==
    /\ scenario = "timeout"
    /\ WatchdogTimeout(p, outcome, TRUE)

\* Another caller kills the run, in "timeout" only.
History_Kill(t, c, outcome) ==
    /\ scenario = "timeout"
    /\ Kill(t, c, outcome, TRUE)

\* get_execution_history, lines 549-555: a copy of the list, taken without the lock.
GetExecutionHistory(t) ==
    /\ pc[t] = "idle"
    /\ ret' = [op |-> "get_execution_history", value |-> execution_history]
    /\ UNCHANGED <<running_commands, proc, pc, locals, health, cancelled, scenario, hvars>>

\* verify_system_health, line 567: len(self._execution_history), without the lock.
HealthHistoryCount(t) ==
    /\ pc[t] = "idle"
    /\ ret' = [op |-> "verify_system_health",
               execution_history_count |-> Len(execution_history)]
    /\ UNCHANGED <<running_commands, proc, pc, locals, health, cancelled, scenario, hvars>>

(* ------------------------- _validate_command -------------------------- *)

\* The longest name handed to the validator.
MaxNameLen == 101

\* The string of n letters a.
Repeat(n) == [i \in 1..n |-> "a"]

\* The strings handed to the validator: the letter a repeated 0..MaxNameLen
\* times, names with a trailing newline, with a space, with every kind of
\* allowed character.
ValidateStrings ==
    {Repeat(n) : n \in 0..MaxNameLen}
        \cup {Repeat(n) \o <<"\n">> : n \in {0, 1, MaxCommandLen - 1, MaxCommandLen}}
        \cup {build, unsafe, nosuch,
              build \o <<"\n">>, build \o <<"\n", "\n">>, <<"\n">> \o build,
              <<"a", " ", "b">>, <<"a", "_", "b", "-", "9", "Z">>,
              <<"a", ".", "b">>, <<"-">>}

\* The values handed to the validator: None, non-strings, strings.
ValidateArgs ==
    {[type |-> "NoneType"], [type |-> "int", value |-> 0],
     [type |-> "int", value |-> 7], [type |-> "list", value |-> <<"a">>]}
        \cup {[type |-> "str", value |-> str] : str \in ValidateStrings}

\* _validate_command on any value: line 185 rejects what is not a string.
validate_value(x) ==
    IF x.type # "str" THEN FALSE ELSE validate_command(x.value)

ValidateInit ==
    /\ running_commands = <<>>
    /\ proc = [p \in Pids |-> Unborn]
    /\ pc = [t \in Threads |-> "idle"]
    /\ command = [t \in Threads |-> NoCommand]
    /\ process = [t \in Threads |-> NoProcess]
    /\ exit_code = [t \in Threads |-> NoneInt]
    /\ timeout_occurred = [t \in Threads |-> FALSE]
    /\ warnings = [t \in Threads |-> {}]
    /\ pending = [t \in Threads |-> "none"]
    /\ health = [t \in Threads |-> NoHealth]
    /\ ret = NoReturn
    /\ cancelled = {}
    /\ scenario = "validate"
    /\ execution_history = <<>>
    /\ record = [t \in Threads |-> 0]
    /\ sliced = [t \in Threads |-> <<>>]
    /\ StreamIdle
    /\ WebIdle
    /\ next_record = 0
    /\ arg \in ValidateArgs

\* _validate_command(arg) is called.
Validate ==
    /\ ret = NoReturn
    /\ ret' = [op |-> "validate", value |-> validate_value(arg)]
    /\ UNCHANGED <<running_commands, proc, pc, locals, health, cancelled,
                   scenario, hvars>>

(* ------------------------- the stdout stream -------------------------- *)

\* Lines a child writes to stdout in one run.
MaxLines == 3

\* The lines a child writes: two lines of text, an empty line, and a last
\* line that is not ended by a newline.
Lines == {<<"a", "\n">>, <<"b", "\n">>, <<"\n">>, <<"c">>}

Terminated(l) == Len(l) > 0 /\ l[Len(l)] = "\n"

\* Taking the newest line of the pipe instead of the oldest.
readline_newest(pipe) ==
    [line |-> pipe[Len(pipe)], rest |-> SubSeq(pipe, 1, Len(pipe) - 1)]

\* process.stdout.readline(): the oldest unread line, which leaves the pipe.
readline(pipe) == [line |-> Head(pipe), rest |-> Tail(pipe)]

RECURSIVE rstrip(_)
\* line.rstrip('\n'): every trailing newline is removed.
rstrip(l) ==
    IF Len(l) > 0 /\ l[Len(l)] = "\n" THEN rstrip(SubSeq(l, 1, Len(l) - 1)) ELSE l

\* A count of callback warnings that stops at one.
warned_once(n, callback_ok) == IF callback_ok THEN n ELSE 1

\* Lines 354-356: warnings.append("Callback failed: ...") for a call that raised.
callback_warned(n, callback_ok) == IF callback_ok THEN n ELSE n + 1

\* The scenarios in which the lines of stdout are followed.
StreamScenarios == {"callback_fails", "readline_raises"}

StreamInit ==
    /\ running_commands = <<>>
    /\ proc = [p \in Pids |-> Unborn]
    /\ pc = [t \in Threads |-> "idle"]
    /\ command = [t \in Threads |-> NoCommand]
    /\ process = [t \in Threads |-> NoProcess]
    /\ exit_code = [t \in Threads |-> NoneInt]
    /\ timeout_occurred = [t \in Threads |-> FALSE]
    /\ warnings = [t \in Threads |-> {}]
    /\ pending = [t \in Threads |-> "none"]
    /\ health = [t \in Threads |-> NoHealth]
    /\ ret = NoReturn
    /\ cancelled = {}
    /\ scenario \in StreamScenarios
    /\ execution_history = <<>>
    /\ record = [t \in Threads |-> 0]
    /\ sliced = [t \in Threads |-> <<>>]
    /\ StreamIdle
    /\ WebIdle
    /\ next_record = 0
    /\ arg = NoArg

\* The child of a run writes one more line to its stdout; after a line
\* without a newline it writes nothing more.  What a child writes after its
\* run has left the stdout loop for good is read by nobody.
Child_Write(p, l) ==
    /\ proc[p].state = "alive"
    /\ proc[p].stdout_open
    /\ \E t \in Threads : process[t] = p /\ pc[t] \in {"update", "read", "callback"}
    /\ Len(emitted[p]) < MaxLines
    /\ emitted[p] # <<>> => Terminated(emitted[p][Len(emitted[p])])
    /\ emitted' = [emitted EXCEPT ![p] = Append(@, l)]
    /\ stdout_pipe' = [stdout_pipe EXCEPT ![p] = Append(@, l)]
    /\ ret' = NoReturn
    /\ UNCHANGED <<running_commands, proc, pc, locals, health, cancelled, scenario,
                   execution_history, record, sliced, next_record, arg,
                   output_lines, line, delivered, failed_calls, callback_warnings,
                   request_executor>>

\* Lines 346-350: readline returns a line, which is appended to output_lines.
\* A line without a newline is returned only at end of file.
Stream_ReadLine(t) ==
    /\ pc[t] = "read"
    /\ stdout_pipe[process[t]] # <<>>
    /\ \/ Terminated(Head(stdout_pipe[process[t]]))
       \/ ~proc[process[t]].stdout_open
    /\ LET r == readline(stdout_pipe[process[t]])
       IN  /\ line' = [line EXCEPT ![t] = r.line]
           /\ stdout_pipe' = [stdout_pipe EXCEPT ![process[t]] = r.rest]
           /\ output_lines' = [output_lines EXCEPT ![t] = Append(@, r.line)]
    /\ pc' = [pc EXCEPT ![t] = "callback"]
    /\ ret' = NoReturn
    /\ UNCHANGED <<running_commands, proc, locals, health, cancelled, scenario,
                   execution_history, record, sliced, next_record, arg,
                   emitted, delivered, failed_calls, callback_warnings,
                   request_executor>>

\* Lines 351-356: callback(line.rstrip('\n')); if it raises, a warning is
\* appended; the loop goes on.
Stream_Callback(t, callback_ok) ==
    /\ pc[t] = "callback"
    /\ Inject("callback_fails", ~callback_ok)
    /\ delivered' = [delivered EXCEPT ![t] = Append(@, rstrip(line[t]))]
    /\ failed_calls' = [failed_calls EXCEPT ![t] =
                            IF callback_ok THEN @ ELSE @ \cup {Len(delivered[t]) + 1}]
    /\ callback_warnings' = [callback_warnings EXCEPT ![t] =
                                 callback_warned(@, callback_ok)]
    /\ warnings' = [warnings EXCEPT ![t] =
                        IF callback_ok THEN @ ELSE @ \cup {"Callback failed"}]
    /\ line' = [line EXCEPT ![t] = NoLine]
    /\ pc' = [pc EXCEPT ![t] = "read"]
    /\ ret' = NoReturn
    /\ UNCHANGED <<running_commands, proc, command, process, exit_code,
                   timeout_occurred, pending, health, cancelled, scenario,
                   execution_history, record, sliced, next_record, arg,
                   stdout_pipe, emitted, output_lines, request_executor>>

\* Lines 346-348: readline returns '' when the pipe is empty and closed.
Stream_ReadEOF(t) ==
    /\ pc[t] = "read"
    /\ stdout_pipe[process[t]] = <<>>
    /\ Execute_ReadEOF(t)

\* Line 346: readline raises on the next line of the pipe.
Stream_ReadError(t) ==
    /\ pc[t] = "read"
    /\ stdout_pipe[process[t]] # <<>>
    /\ Execute_ReadError(t)

\* Lines 407-456: the result.  emitted, delivered, failed_calls,
\* callback_warnings, returncode and read_error are not in the code's result:
\* they record what the child wrote, which calls the callback received,
\* which of them raised, how many warnings that left, how the child ended
\* and whether readline raised.
Stream_Finish(t) ==
    /\ pc[t] = "finish"
    /\ pending[t] = "none"
    /\ ret' = [op |-> "execute", kind |-> "returned", command |-> command[t],
               exit_code |-> exit_code[t],
               success |-> success_of(exit_code[t], timeout_occurred[t]),
               warnings |-> warnings[t],
               output_lines |-> output_lines[t],
               emitted |-> emitted[process[t]],
               delivered |-> delivered[t],
               failed_calls |-> failed_calls[t],
               callback_warnings |-> callback_warnings[t],
               returncode |-> proc[process[t]].returncode,
               read_error |-> "Execution error" \in warnings[t]]
    /\ pc' = [pc EXCEPT ![t] = "idle"]
    /\ command' = [command EXCEPT ![t] = NoCommand]
    /\ process' = [process EXCEPT ![t] = NoProcess]
    /\ exit_code' = [exit_code EXCEPT ![t] = NoneInt]
    /\ timeout_occurred' = [timeout_occurred EXCEPT ![t] = FALSE]
    /\ warnings' = [warnings EXCEPT ![t] = {}]
    /\ proc' = Collect(proc, process', running_commands)
    /\ stdout_pipe' = [stdout_pipe EXCEPT ![process[t]] = <<>>]
    /\ emitted' = [emitted EXCEPT ![process[t]] = <<>>]
    /\ output_lines' = [output_lines EXCEPT ![t] = <<>>]
    /\ line' = [line EXCEPT ![t] = NoLine]
    /\ delivered' = [delivered EXCEPT ![t] = <<>>]
    /\ failed_calls' = [failed_calls EXCEPT ![t] = {}]
    /\ callback_warnings' = [callback_warnings EXCEPT ![t] = 0]
    /\ UNCHANGED <<running_commands, pending, health, cancelled, scenario,
                   execution_history, record, sliced, next_record, arg,
                   request_executor>>

\* One thread runs execute with a callback; the child writes lines and ends.
StreamNext ==
    \/ \E t \in Threads : Execute_Call(t, build, TRUE)
    \/ \E t \in Threads : Execute_Register(t)
    \/ \E t \in Threads : Execute_Popen(t, TRUE)
    \/ \E t \in Threads : Execute_Update(t)
    \/ \E p \in Pids, l \in Lines : Child_Write(p, l)
    \/ \E t \in Threads : Stream_ReadLine(t)
    \/ \E t \in Threads, callback_ok \in BOOLEAN : Stream_Callback(t, callback_ok)
    \/ \E t \in Threads : Stream_ReadEOF(t)
    \/ \E t \in Threads : Stream_ReadError(t)
    \/ \E t \in Threads : Execute_Wait(t, TRUE, TRUE)
    \/ \E t \in Threads : Execute_Finally(t)
    \/ \E t \in Threads : Stream_Finish(t)
    \/ \E p \in Pids, code \in EndCodes("race") : ProcExit(p, code, TRUE)

SpecStream == StreamInit /\ [][StreamNext]_vars

(* ------------------- construction, effective timeout ------------------ *)

\* The state of a program in which no executor is in use, in scenario sc;
\* arg is left to the specification.
NothingRunning(sc) ==
    /\ running_commands = <<>>
    /\ proc = [p \in Pids |-> Unborn]
    /\ pc = [t \in Threads |-> "idle"]
    /\ command = [t \in Threads |-> NoCommand]
    /\ process = [t \in Threads |-> NoProcess]
    /\ exit_code = [t \in Threads |-> NoneInt]
    /\ timeout_occurred = [t \in Threads |-> FALSE]
    /\ warnings = [t \in Threads |-> {}]
    /\ pending = [t \in Threads |-> "none"]
    /\ health = [t \in Threads |-> NoHealth]
    /\ ret = NoReturn
    /\ cancelled = {}
    /\ scenario = sc
    /\ execution_history = <<>>
    /\ record = [t \in Threads |-> 0]
    /\ sliced = [t \in Threads |-> <<>>]
    /\ StreamIdle
    /\ WebIdle
    /\ next_record = 0

\* The largest number of seconds passed as a timeout.
MaxTimeout == 3

\* Python values passed as timeout and timeout_override: None, integers,
\* the booleans (a bool is an int in Python, True == 1), a float, a string.
TimeoutValues ==
    {[type |-> "NoneType", value |-> 0]}
        \cup {[type |-> "int", value |-> n] : n \in -1..MaxTimeout}
        \cup {[type |-> "bool", value |-> n] : n \in 0..1}
        \cup {[type |-> "float", value |-> 2], [type |-> "str", value |-> 3]}

\* isinstance(x, int)
isinstance_int(x) == x.type \in {"int", "bool"}

\* What the constructors are called with: ahab_path (None, a number, '' or
\* a path), what the file system holds at Path(ahab_path), and timeout.
ConstructArgs ==
    [ahab_path : {"NoneType", "int", "empty", "str"},
     path_exists : BOOLEAN,
     path_readable : BOOLEAN,
     makefile : {"missing", "file", "directory"},
     makefile_readable : BOOLEAN,
     timeout : TimeoutValues]

\* The file system facts are those of one directory tree.
Consistent(x) ==
    /\ x.path_readable => x.path_exists
    /\ x.makefile # "missing" => x.path_exists
    /\ x.makefile_readable => x.makefile # "missing"
    /\ x.ahab_path \in {"NoneType", "int"}
          => (~x.path_exists /\ x.timeout.type = "NoneType")

\* The constructor raised the exception exc.
Failed(exc, msg) == [raised |-> TRUE, error |-> exc, message |-> msg]

\* The constructor returned: the new executor's fields.
Constructed(path, timeout) ==
    [raised |-> FALSE,
     executor |-> [ahab_path |-> path, timeout |-> timeout,
                   running_commands |-> <<>>, execution_history |-> <<>>]]

\* _verify_path_accessible, lines 160-166
verify_path_accessible(x) == x.path_exists /\ x.path_readable

\* A check that takes every file for readable.
file_assumed(x) == TRUE

\* _verify_file_accessible, lines 168-174
verify_file_accessible(x) == x.makefile = "file" /\ x.makefile_readable

\* ZeroTrustCommandExecutor.__init__, lines 131-158
construct(x) ==
    IF x.ahab_path # "str"
    THEN Failed("ValueError", "ahab_path must be a non-empty string")
    ELSE IF ~verify_path_accessible(x)
    THEN Failed("ValueError", "Ahab path does not exist or is not accessible")
    ELSE IF ~verify_file_accessible(x)
    THEN Failed("ValueError", "Makefile not found or not accessible")
    ELSE IF ~isinstance_int(x.timeout) \/ x.timeout.value <= 0
    THEN Failed("ValueError", "timeout must be a positive integer")
    ELSE Constructed(x.ahab_path, x.timeout)

\* CommandExecutor.__init__, executor.py lines 46-64: Path(ahab_path) raises
\* TypeError for None and for a number; '' is the current directory; the
\* timeout is not looked at.
plain_construct(x) ==
    IF x.ahab_path \in {"NoneType", "int"}
    THEN Failed("TypeError", "expected str, bytes or os.PathLike object")
    ELSE IF ~x.path_exists
    THEN Failed("ValueError", "Ahab path does not exist")
    ELSE IF x.makefile = "missing"
    THEN Failed("ValueError", "Makefile not found")
    ELSE Constructed(x.ahab_path, x.timeout)

\* A timeout that is the override whenever one is given.
override_if_given(timeout_override, default) ==
    IF timeout_override.type # "NoneType" THEN timeout_override ELSE default

\* execute, lines 266-271: "Use timeout override if provided and valid".
effective_timeout(timeout_override, default) ==
    IF /\ timeout_override.type # "NoneType"
       /\ isinstance_int(timeout_override)
       /\ timeout_override.value > 0
    THEN timeout_override
    ELSE default

ConstructInit ==
    /\ NothingRunning("construct")
    /\ arg \in {x \in ConstructArgs : Consistent(x)}

\* Both constructors are called with arg.
Construct ==
    /\ ret = NoReturn
    /\ ret' = [op |-> "construct", zero_trust |-> construct(arg),
               plain |-> plain_construct(arg)]
    /\ UNCHANGED <<running_commands, proc, pc, locals, health, cancelled,
                   scenario, hvars>>

\* execute resolves its timeout on the executor constructed from arg.
Execute_ResolveTimeout(timeout_override) ==
    /\ ret.op = "construct"
    /\ ~ret.zero_trust.raised
    /\ ret' = [op |-> "effective_timeout",
               timeout_override |-> timeout_override,
               default |-> ret.zero_trust.executor.timeout,
               timeout |-> effective_timeout(timeout_override,
                                             ret.zero_trust.executor.timeout)]
    /\ UNCHANGED <<running_commands, proc, pc, locals, health, cancelled,
                   scenario, hvars>>

ConstructNext ==
    \/ Construct
    \/ \E timeout_override \in TimeoutValues : Execute_ResolveTimeout(timeout_override)

SpecConstruct == ConstructInit /\ [][ConstructNext]_vars

(* ------------------------- get_system_status -------------------------- *)

\* The three workstation lines of `make status`.
Markers == {"running", "stopped", "not_created"}

\* Words of the container lines of the output: names that start with
\* 'ahab_', a name that holds 'ahab_' further in, and the state columns.
AhabNames == {"ahab_web", "ahab_db"}
Words == AhabNames \cup {"my_ahab_x", "Up", "Exited", "ahab_web_Up"}

\* 'ahab_' in word, 'Up' in word
has_ahab(word) == word \in AhabNames \cup {"my_ahab_x", "ahab_web_Up"}
has_Up(word) == word \in {"Up", "ahab_web_Up"}

\* container_name.startswith('ahab_')
startswith_ahab(word) == word \in AhabNames \cup {"ahab_web_Up"}

\* container_name.replace('ahab_', '')
service_name(word) ==
    CASE word = "ahab_web" -> "web"
      [] word = "ahab_db" -> "db"
      [] word = "ahab_web_Up" -> "web_Up"
      [] word = "my_ahab_x" -> "my_x"
      [] OTHER -> word

\* The lines of output a status run can print, split into words.
StatusLines ==
    {<<"ahab_web", "Up">>, <<"ahab_db", "Exited">>, <<"my_ahab_x", "Up">>,
     <<"ahab_web_Up">>}
StatusOutputs ==
    {<<>>} \cup {<<l>> : l \in StatusLines}
           \cup {<< <<"ahab_web", "Up">>, <<"ahab_db", "Up">> >>,
                 << <<"my_ahab_x", "Up">>, <<"ahab_web", "Up">> >>}

\* What get_system_status is called with: ahab_path and the directory as
\* for the constructor, whether the Makefile has a status target, how the
\* status run goes (spawned, exit code, stderr readable, whether the output
\* holds 'Status Check Complete', its workstation markers and container
\* lines), what .vagrant is, and what `vagrant status` answers.
StatusArgs ==
    [ahab_path : {"NoneType", "int", "empty", "str"},
     path_exists : BOOLEAN,
     path_readable : BOOLEAN,
     makefile : {"missing", "file", "directory"},
     makefile_readable : BOOLEAN,
     status_target : BOOLEAN,
     spawned : BOOLEAN,
     exit_code : {NoneInt, Some(0), Some(1), Some(-15)},
     stderr_ok : BOOLEAN,
     verify : {"found", "missing"},
     markers : SUBSET Markers,
     lines : StatusOutputs,
     vagrant : {"missing", "exists", "raises"},
     vagrant_status : {"running", "stopped", "raises"}]

\* Lines 610-617: "Initialize status with safe defaults"
SafeDefaults ==
    [workstation_installed |-> FALSE, workstation_running |-> FALSE,
     services |-> <<>>, last_updated |-> "now", errors |-> {},
     warnings |-> {}]

\* Lines 599-605: the record returned for an invalid ahab_path.
InvalidPath ==
    [error |-> "Invalid ahab_path provided", workstation_installed |-> FALSE,
     workstation_running |-> FALSE, services |-> <<>>,
     last_updated |-> "now"]

\* get_system_status returned `status`; it raised exc.
StatusOf(status) == [raised |-> FALSE, status |-> status]
Escaped(exc) == [raised |-> TRUE, error |-> exc]

\* The constructor call of line 621: timeout=30.
status_executor(x) ==
    construct([ahab_path |-> x.ahab_path, path_exists |-> x.path_exists,
               path_readable |-> x.path_readable, makefile |-> x.makefile,
               makefile_readable |-> x.makefile_readable,
               timeout |-> [type |-> "int", value |-> 30]])

\* executor.execute('status', verify_output='Status Check Complete') on a
\* new executor: 'status' is a valid name and nothing is running, so only
\* the target lookup raises; the rest is in the result.
status_execute(x) ==
    IF ~x.status_target
    THEN Escaped("UnknownTask")
    ELSE LET h == IF x.spawned
                  THEN [exit_code |-> x.exit_code,
                        timeout_occurred |-> timeout_check(x.exit_code),
                        warnings |->
                            (IF x.stderr_ok THEN {}
                             ELSE {"Failed to read stderr"})
                            \cup (IF timeout_check(x.exit_code)
                                  THEN {"Command may have been terminated due to timeout"}
                                  ELSE {})]
                  ELSE exception_handler("OSError")
             success == success_of(h.exit_code, h.timeout_occurred)
             v == verification(x.verify, success)
         IN  [raised |-> FALSE,
              result |-> [exit_code |-> h.exit_code,
                          timeout_occurred |-> h.timeout_occurred,
                          success |-> success,
                          verification_passed |-> v.passed,
                          warnings |-> h.warnings \cup v.warnings,
                          markers |-> IF x.spawned THEN x.markers ELSE {},
                          lines |-> IF x.spawned THEN x.lines ELSE <<>>]]

\* A chain that tests the stopped marker before the running marker.
parse_stopped_first(status, markers) ==
    IF "stopped" \in markers
    THEN [status EXCEPT !.workstation_installed = TRUE,
                        !.workstation_running = FALSE]
    ELSE IF "running" \in markers
    THEN [status EXCEPT !.workstation_installed = TRUE,
                        !.workstation_running = TRUE]
    ELSE status

\* Lines 631-641: the if / elif chain over the three workstation markers.
parse_workstation(status, markers) ==
    IF "running" \in markers
    THEN [status EXCEPT !.workstation_installed = TRUE,
                        !.workstation_running = TRUE]
    ELSE IF "stopped" \in markers
    THEN [status EXCEPT !.workstation_installed = TRUE,
                        !.workstation_running = FALSE]
    ELSE IF "not_created" \in markers
    THEN [status EXCEPT !.workstation_installed = FALSE,
                        !.workstation_running = FALSE]
    ELSE [status EXCEPT !.warnings =
              @ \cup {"Could not determine workstation status from output"}]

\* Lines 644-658: one service per line that holds 'ahab_' and 'Up', has
\* two words or more and starts with 'ahab_'.
RECURSIVE parse_services(_)
parse_services(lines) ==
    IF lines = <<>> THEN <<>>
    ELSE LET parts == Head(lines)
             listed ==
                 /\ \E i \in 1..Len(parts) : has_ahab(parts[i])
                 /\ \E i \in 1..Len(parts) : has_Up(parts[i])
                 /\ Len(parts) >= 2
                 /\ startswith_ahab(parts[1])
         IN  (IF listed
              THEN <<[name |-> service_name(parts[1]), status |-> "running",
                      container |-> parts[1]]>>
              ELSE <<>>) \o parse_services(Tail(lines))

\* Lines 662-670: "Command failed - use fallback detection".  exists()
\* raising leaves the error entry in status and goes to the except clause.
fallback_detection(status, vagrant) ==
    LET failed == [status EXCEPT !.errors = @ \cup {"make status failed"}]
    IN  IF vagrant = "raises"
        THEN [raised |-> TRUE, status |-> failed]
        ELSE IF vagrant = "exists"
        THEN [raised |-> FALSE,
              status |-> [failed EXCEPT
                  !.workstation_installed = TRUE,
                  !.warnings = @ \cup
                      {"Workstation status detected via .vagrant directory (fallback)"}]]
        ELSE [raised |-> FALSE, status |-> failed]

\* A status check without the except clause: the exception reaches the
\* caller.
status_reraise(status, vagrant) == Escaped("Exception")

\* Lines 676-687: `except Exception` and the "ultimate fallback" inside it.
status_except(status, vagrant) ==
    LET logged == [status EXCEPT
                       !.errors = @ \cup {"System status check failed"}]
    IN  IF vagrant = "raises"
        THEN StatusOf([logged EXCEPT
                           !.errors = @ \cup {"Fallback check failed"}])
        ELSE IF vagrant = "exists"
        THEN StatusOf([logged EXCEPT
                 !.workstation_installed = TRUE,
                 !.warnings = @ \cup
                     {"Workstation detected via filesystem check (ultimate fallback)"}])
        ELSE StatusOf(logged)

\* get_system_status, zero_trust_executor.py lines 588-689
get_system_status(x) ==
    IF x.ahab_path # "str"
    THEN StatusOf(InvalidPath)
    ELSE IF status_executor(x).raised
    THEN status_except(SafeDefaults, x.vagrant)
    ELSE IF status_execute(x).raised
    THEN status_except(SafeDefaults, x.vagrant)
    ELSE LET result == status_execute(x).result
             parsed ==
                 IF is_completely_successful(result)
                 THEN [raised |-> FALSE,
                       status |-> [parse_workstation(SafeDefaults,
                                                     result.markers)
                                   EXCEPT !.services =
                                       parse_services(result.lines)]]
                 ELSE fallback_detection(SafeDefaults, x.vagrant)
         IN  IF parsed.raised
             THEN status_except(parsed.status, x.vagrant)
             ELSE StatusOf([parsed.status EXCEPT
                                !.warnings = @ \cup result.warnings])

\* get_system_status of executor.py, lines 224-259: Path(ahab_path) and
\* exists() are outside any try; only `vagrant status` is guarded.
plain_get_system_status(x) ==
    IF x.ahab_path \in {"NoneType", "int"}
    THEN Escaped("TypeError")
    ELSE IF x.vagrant = "raises"
    THEN Escaped("PermissionError")
    ELSE StatusOf([workstation_installed |-> x.vagrant = "exists",
                   workstation_running |->
                       x.vagrant = "exists" /\ x.vagrant_status = "running",
                   services |-> <<>>, last_updated |-> "now"])

\* The file system facts are those of one directory tree, and an input
\* that no step reads has one value.
StatusConsistent(x) ==
    /\ x.path_readable => x.path_exists
    /\ x.makefile # "missing" => x.path_exists
    /\ x.makefile_readable => x.makefile # "missing"
    /\ x.vagrant # "missing" => x.path_exists
    /\ x.ahab_path \in {"NoneType", "int"} => ~x.path_exists
    /\ x.vagrant # "exists" => x.vagrant_status = "stopped"
    /\ (x.ahab_path # "str" \/ status_executor(x).raised)
          => ~x.status_target
    /\ ~x.status_target => ~x.spawned
    /\ ~x.spawned
          => (x.exit_code = Some(1) /\ x.stderr_ok /\ x.verify = "missing"
              /\ x.markers = {} /\ x.lines = <<>>)
    /\ (x.spawned /\ x.exit_code # Some(0))
          => (x.verify = "missing" /\ x.markers = {} /\ x.lines = <<>>)

StatusInit ==
    /\ NothingRunning("status")
    /\ arg \in {x \in StatusArgs : StatusConsistent(x)}

\* Both functions are called with arg.
GetSystemStatus ==
    /\ ret = NoReturn
    /\ ret' = [op |-> "get_system_status",
               zero_trust |-> get_system_status(arg),
               plain |-> plain_get_system_status(arg)]
    /\ UNCHANGED <<running_commands, proc, pc, locals, health, cancelled,
                   scenario, hvars>>

StatusNext == GetSystemStatus

SpecStatus == StatusInit /\ [][StatusNext]_vars

(* --------------------- app.py: POST /api/execute ---------------------- *)

\* config.ALLOWED_COMMANDS: the names a request may run.
AllowedCommands == MakefileTargets

\* The threads that serve requests, and the names they are asked to run.
RequestThreads == {"t1", "t2"}
RequestInputs == AllowedCommands \cup {nosuch}

\* CommandExecutor.__init__, executor.py lines 53-56: every executor has
\* its own, empty _running_commands and its own lock.
NewExecutor == [constructed |-> TRUE, running_commands |-> <<>>]

\* execute_command, line 494: CommandExecutor(config.AHAB_PATH, timeout=...)
request_construct(t, c) == NewExecutor

\* CommandExecutor.is_running on the executor e.
executor_is_running(e, c) ==
    c \in DOMAIN e.running_commands /\ e.running_commands[c].running

\* The JSON answer and its HTTP status.
Response(t, c, status, code) ==
    [op |-> "api_execute", thread |-> t, command |-> c, status |-> status,
     code |-> code]

\* The request is over: the handler's locals and its executor are dropped.
Web_Done(t) ==
    /\ pc' = [pc EXCEPT ![t] = "idle"]
    /\ command' = [command EXCEPT ![t] = NoCommand]
    /\ process' = [process EXCEPT ![t] = NoProcess]
    /\ exit_code' = [exit_code EXCEPT ![t] = NoneInt]
    /\ request_executor' = [request_executor EXCEPT ![t] = NoExecutor]

WebUnchanged ==
    UNCHANGED <<running_commands, timeout_occurred, warnings, pending, health,
                cancelled, scenario, execution_history, record, sliced,
                next_record, arg, svars>>

\* execute_command, lines 484-494: the whitelist, then a new executor.
Web_Request(t, c) ==
    /\ pc[t] = "idle"
    /\ IF c \notin AllowedCommands
       THEN /\ ret' = Response(t, c, 400, "COMMAND_NOT_ALLOWED")
            /\ UNCHANGED <<pc, command, request_executor>>
       ELSE /\ ret' = NoReturn
            /\ pc' = [pc EXCEPT ![t] = "web_check"]
            /\ command' = [command EXCEPT ![t] = c]
            /\ request_executor' =
                   [request_executor EXCEPT ![t] = request_construct(t, c)]
    /\ UNCHANGED <<proc, process, exit_code>>
    /\ WebUnchanged

\* execute_command, lines 497-502: 409 when the executor says the command
\* is running.
Web_IsRunning(t) ==
    /\ pc[t] = "web_check"
    /\ IF executor_is_running(request_executor[t], command[t])
       THEN /\ ret' = Response(t, command[t], 409, "COMMAND_RUNNING")
            /\ Web_Done(t)
       ELSE /\ ret' = NoReturn
            /\ pc' = [pc EXCEPT ![t] = "web_call"]
            /\ UNCHANGED <<command, process, exit_code, request_executor>>
    /\ UNCHANGED proc
    /\ WebUnchanged

\* executor.execute, lines 80-82: the check again; ValueError is answered
\* with 400 VALIDATION_ERROR (app.py lines 523-529).
Web_Call(t) ==
    /\ pc[t] = "web_call"
    /\ IF executor_is_running(request_executor[t], command[t])
       THEN /\ ret' = Response(t, command[t], 400, "VALIDATION_ERROR")
            /\ Web_Done(t)
       ELSE /\ ret' = NoReturn
            /\ pc' = [pc EXCEPT ![t] = "web_register"]
            /\ UNCHANGED <<command, process, exit_code, request_executor>>
    /\ UNCHANGED proc
    /\ WebUnchanged

\* executor.execute, lines 88-96: the entry goes into the registry of the
\* request's executor.
Web_Register(t) ==
    /\ pc[t] = "web_register"
    /\ request_executor' =
           [request_executor EXCEPT ![t].running_commands =
                Put(@, command[t], CommandState(command[t], NoProcess, NoProcess))]
    /\ pc' = [pc EXCEPT ![t] = "web_spawn"]
    /\ ret' = NoReturn
    /\ UNCHANGED <<proc, command, process, exit_code>>
    /\ WebUnchanged

\* executor.execute, lines 100-108: Popen(['make', command]).
Web_Popen(t) ==
    /\ pc[t] = "web_spawn"
    /\ FreePids # {}
    /\ proc' = [proc EXCEPT ![Min(FreePids)] = NewProcess(command[t])]
    /\ process' = [process EXCEPT ![t] = Min(FreePids)]
    /\ pc' = [pc EXCEPT ![t] = "web_update"]
    /\ ret' = NoReturn
    /\ UNCHANGED <<command, exit_code, request_executor>>
    /\ WebUnchanged

\* executor.execute, lines 110-114: pid and handle go into the entry.
Web_Update(t) ==
    /\ pc[t] = "web_update"
    /\ request_executor' =
           [request_executor EXCEPT ![t].running_commands =
                IF command[t] \in DOMAIN @
                THEN [@ EXCEPT ![command[t]].pid = process[t],
                               ![command[t]].process = process[t]]
                ELSE @]
    /\ pc' = [pc EXCEPT ![t] = "web_read"]
    /\ ret' = NoReturn
    /\ UNCHANGED <<proc, command, process, exit_code>>
    /\ WebUnchanged

\* executor.execute, lines 117-124: stdout is read to its end and the child
\* waited for.
Web_Wait(t) ==
    /\ pc[t] = "web_read"
    /\ ~proc[process[t]].stdout_open
    /\ proc[process[t]].state = "exited"
    /\ exit_code' = [exit_code EXCEPT ![t] = proc[process[t]].returncode]
    /\ pc' = [pc EXCEPT ![t] = "web_finally"]
    /\ ret' = NoReturn
    /\ UNCHANGED <<proc, command, process, request_executor>>
    /\ WebUnchanged

\* executor.execute, lines 133-137: the entry is deleted.
Web_Finally(t) ==
    /\ pc[t] = "web_finally"
    /\ request_executor' =
           [request_executor EXCEPT ![t].running_commands =
                IF command[t] \in DOMAIN @ THEN Remove(@, command[t]) ELSE @]
    /\ pc' = [pc EXCEPT ![t] = "web_respond"]
    /\ ret' = NoReturn
    /\ UNCHANGED <<proc, command, process, exit_code>>
    /\ WebUnchanged

\* execute_command, lines 507-521: the result is answered with 200.
Web_Respond(t) ==
    /\ pc[t] = "web_respond"
    /\ ret' = Response(t, command[t], 200,
                       IF exit_code[t] = Some(0) THEN "success" ELSE "failed")
    /\ proc' = [proc EXCEPT ![process[t]] = Unborn]
    /\ Web_Done(t)
    /\ WebUnchanged

WebInit == NothingRunning("web") /\ arg = NoArg

\* Two request threads serve POST /api/execute; the children end with 0 or
\* with a make error.
WebNext ==
    \/ \E t \in RequestThreads, c \in RequestInputs : Web_Request(t, c)
    \/ \E t \in RequestThreads : Web_IsRunning(t)
    \/ \E t \in RequestThreads : Web_Call(t)
    \/ \E t \in RequestThreads : Web_Register(t)
    \/ \E t \in RequestThreads : Web_Popen(t)
    \/ \E t \in RequestThreads : Web_Update(t)
    \/ \E t \in RequestThreads : Web_Wait(t)
    \/ \E t \in RequestThreads : Web_Finally(t)
    \/ \E t \in RequestThreads : Web_Respond(t)
    \/ \E p \in Pids, code \in {0, 1} : ProcExit(p, code, TRUE)

SpecWeb == WebInit /\ [][WebNext]_vars

(* --------------------------- specification ---------------------------- *)

Next ==
    \/ \E t \in Threads : \E c \in ExecuteInputs(t), readable \in BOOLEAN :
          Execute_Call(t, c, readable)
    \/ \E t \in Threads : Execute_Register(t)
    \/ \E t \in Threads, spawned \in BOOLEAN : Execute_Popen(t, spawned)
    \/ \E t \in Threads : Execute_Update(t)
    \/ \E t \in Threads, callback_ok \in BOOLEAN : Execute_ReadLine(t, callback_ok)
    \/ \E t \in Threads : Execute_ReadEOF(t)
    \/ \E t \in Threads : Execute_ReadError(t)
    \/ \E t \in Threads, wait_ok \in BOOLEAN, stderr_ok \in BOOLEAN :
          Execute_Wait(t, wait_ok, stderr_ok)
    \/ \E t \in Threads : Execute_Finally(t)
    \/ \E t \in Threads, verify_output \in Patterns, output \in Outputs :
          Execute_Finish(t, verify_output, output)
    \/ \E p \in Pids, code \in EndCodes("timeout"), closes \in BOOLEAN : ProcExit(p, code, closes)
    \/ \E p \in Pids : ProcCloseStdout(p)
    \/ \E p \in Pids, outcome \in TerminateOutcomes, closes \in BOOLEAN :
          WatchdogTimeout(p, outcome, closes)
    \/ \E p \in Pids, killed \in BOOLEAN, closes \in BOOLEAN :
          WatchdogGrace(p, killed, closes)
    \/ \E t \in Observers, c \in ObservedCommands : IsRunning(t, c)
    \/ \E t \in Observers : GetRunningCommands(t)
    \/ \E t \in Observers, c \in ObservedCommands, outcome \in KillOutcomes,
          closes \in BOOLEAN : Kill(t, c, outcome, closes)
    \/ \E t \in Observers : HealthList(t)
    \/ \E t \in Observers, accessible \in BOOLEAN : HealthStale(t, accessible)

Spec == Init /\ [][Next]_vars

\* The plain CommandExecutor shared by the same threads.
PlainNext ==
    \/ \E t \in Threads : \E c \in ExecuteInputs(t) \cap MakefileTargets :
          CommandExecutor_Call(t, c)
    \/ \E t \in Threads : CommandExecutor_Register(t)
    \/ \E t \in Threads, spawned \in BOOLEAN : CommandExecutor_Popen(t, spawned)
    \/ \E t \in Threads : CommandExecutor_Update(t)
    \/ \E t \in Threads, callback_ok \in BOOLEAN :
          CommandExecutor_ReadLine(t, callback_ok)
    \/ \E t \in Threads : CommandExecutor_ReadEOF(t)
    \/ \E t \in Threads : CommandExecutor_Wait(t)
    \/ \E t \in Threads : CommandExecutor_Finally(t)
    \/ \E t \in Threads : CommandExecutor_Finish(t)
    \/ \E p \in Pids, code \in EndCodes("timeout"), closes \in BOOLEAN :
          ProcExit(p, code, closes)
    \/ \E p \in Pids : ProcCloseStdout(p)
    \/ \E p \in Pids : ProcOverdue(p)
    \/ \E t \in Observers, c \in ObservedCommands : CommandExecutor_IsRunning(t, c)
    \/ \E t \in Observers : CommandExecutor_GetRunningCommands(t)
    \/ \E t \in Observers, c \in ObservedCommands, raises \in BOOLEAN,
          closes \in BOOLEAN : CommandExecutor_Kill(t, c, raises, closes)

SpecPlain == PlainInit /\ [][PlainNext]_vars

\* execute with its recording, and the readers of the history.
HistoryNext ==
    \/ \E t \in Threads : \E c \in HistoryInputs(t) : History_Call(t, c)
    \/ \E t \in Threads : Execute_Register(t)
    \/ \E t \in Threads, spawned \in BOOLEAN : Execute_Popen(t, spawned)
    \/ \E t \in Threads : Execute_Update(t)
    \/ \E t \in Threads : Execute_ReadEOF(t)
    \/ \E t \in Threads : Execute_Wait(t, TRUE, TRUE)
    \/ \E t \in Threads : Execute_Finally(t)
    \/ \E p \in Pids, code \in EndCodes("race") : History_ProcExit(p, code)
    \/ \E p \in Pids, outcome \in {"dies", "survives"} :
          History_WatchdogTimeout(p, outcome)
    \/ \E p \in Pids : WatchdogGrace(p, TRUE, TRUE)
    \/ \E t \in Observers, outcome \in {"terminated", "killed"} :
          History_Kill(t, build, outcome)
    \/ \E t \in Threads : Record_Append(t)
    \/ \E t \in Threads : Record_Check(t)
    \/ \E t \in Threads : Record_Slice(t)
    \/ \E t \in Threads : Record_Assign(t)
    \/ \E t \in Threads : Execute_Return(t)
    \/ \E t \in Observers : GetExecutionHistory(t)
    \/ \E t \in Observers : HealthHistoryCount(t)

SpecHistory == HistoryInit /\ [][HistoryNext]_vars

\* The validator applied to each value.
ValidateNext == Validate

SpecValidate == ValidateInit /\ [][ValidateNext]_vars

\* The scenarios in which the watchdog thread is followed to its end.
WatchdogScenarios == {"timeout", "terminate_raises", "kill_raises"}

WatchdogInit ==
    /\ running_commands = <<>>
    /\ proc = [p \in Pids |-> Unborn]
    /\ pc = [t \in Threads |-> "idle"]
    /\ command = [t \in Threads |-> NoCommand]
    /\ process = [t \in Threads |-> NoProcess]
    /\ exit_code = [t \in Threads |-> NoneInt]
    /\ timeout_occurred = [t \in Threads |-> FALSE]
    /\ warnings = [t \in Threads |-> {}]
    /\ pending = [t \in Threads |-> "none"]
    /\ health = [t \in Threads |-> NoHealth]
    /\ ret = NoReturn
    /\ cancelled = {}
    /\ scenario \in WatchdogScenarios
    /\ execution_history = <<>>
    /\ record = [t \in Threads |-> 0]
    /\ sliced = [t \in Threads |-> <<>>]
    /\ StreamIdle
    /\ WebIdle
    /\ next_record = 0
    /\ arg = NoArg

\* One thread runs execute; the child exits by itself before or after the
\* timeout, or is ended by the watchdog; each watchdog thread runs until its
\* sleep ends.
WatchdogNext ==
    \/ \E t \in Threads : Execute_Call(t, build, TRUE)
    \/ \E t \in Threads : Execute_Register(t)
    \/ \E t \in Threads : Execute_Popen(t, TRUE)
    \/ \E t \in Threads : Execute_Update(t)
    \/ \E t \in Threads : Execute_ReadEOF(t)
    \/ \E t \in Threads : Execute_Wait(t, TRUE, TRUE)
    \/ \E t \in Threads : Execute_Finally(t)
    \/ \E t \in Threads, output \in Outputs : Execute_Finish(t, NoPattern, output)
    \/ \E p \in Pids, code \in EndCodes("race") : ProcExitBeforeWakeup(p, code)
    \/ \E p \in Pids, outcome \in TerminateOutcomes :
          WatchdogTimeout(p, outcome, TRUE)
    \/ \E p \in Pids, killed \in BOOLEAN : WatchdogGrace(p, killed, TRUE)

SpecWatchdog == WatchdogInit /\ [][WatchdogNext]_vars

(* ------------------ the child's two pipes: stderr ---------------------- *)

\* How many writes the stderr pipe holds while nobody reads it (the pipe
\* buffer of the operating system, 64 KiB on Linux, in units of one write).
PipeCapacity == 2

\* Popen(stdout=PIPE, stderr=PIPE), lines 310-311: the child writes to its
\* stderr.  execute reads stderr only at line 369, after the stdout loop and
\* process.wait(), so until then the pipe only fills: a write into the full
\* pipe blocks the child.
Child_WriteStderr(p) ==
    /\ proc[p].state = "alive"
    /\ ~proc[p].stderr_blocked
    /\ \E t \in Threads : process[t] = p /\ pc[t] \in {"update", "read", "wait"}
    /\ proc' = IF proc[p].stderr_buffered < PipeCapacity
               THEN [proc EXCEPT ![p].stderr_buffered = @ + 1]
               ELSE [proc EXCEPT ![p].stderr_blocked = TRUE]
    /\ ret' = NoReturn
    /\ UNCHANGED <<running_commands, pc, locals, health, cancelled, scenario>>
    /\ UNCHANGED hvars

\* The child closes its stdout and runs on: execute leaves the stdout loop
\* and calls process.wait(), which reads nothing either.
Child_CloseStdout(p) ==
    /\ proc[p].state = "alive"
    /\ proc[p].stdout_open
    /\ ~proc[p].stderr_blocked
    /\ \E t \in Threads : process[t] = p /\ pc[t] \in {"update", "read"}
    /\ proc' = [proc EXCEPT ![p].stdout_open = FALSE]
    /\ ret' = NoReturn
    /\ UNCHANGED <<running_commands, pc, locals, health, cancelled, scenario>>
    /\ UNCHANGED hvars

\* The child ends by itself, which it can only do when it is not blocked in
\* a write.
Pipes_ProcExit(p, code) ==
    /\ ~proc[p].stderr_blocked
    /\ ProcExit(p, code, TRUE)

\* The children of this specification end by themselves within the timeout
\* when they can run: the timeout passes only for a child that is blocked.
Pipes_WatchdogTimeout(p, outcome) ==
    /\ proc[p].stderr_blocked
    /\ WatchdogTimeout(p, outcome, TRUE)

PipesInit == NothingRunning("pipes") /\ arg = NoArg

\* One thread runs execute('build'); the child writes to stderr and ends
\* with 0 or with a make error.
PipesNext ==
    \/ \E t \in Threads, c \in MakefileTargets : Execute_Call(t, c, TRUE)
    \/ \E t \in Threads : Execute_Register(t)
    \/ \E t \in Threads : Execute_Popen(t, TRUE)
    \/ \E t \in Threads : Execute_Update(t)
    \/ \E t \in Threads : Execute_ReadEOF(t)
    \/ \E t \in Threads : Execute_Wait(t, TRUE, TRUE)
    \/ \E t \in Threads : Execute_Finally(t)
    \/ \E t \in Threads, output \in Outputs : Execute_Finish(t, NoPattern, output)
    \/ \E p \in Pids : Child_WriteStderr(p)
    \/ \E p \in Pids : Child_CloseStdout(p)
    \/ \E p \in Pids, code \in {0, 1} : Pipes_ProcExit(p, code)
    \/ \E p \in Pids, outcome \in {"dies", "survives"} :
          Pipes_WatchdogTimeout(p, outcome)
    \/ \E p \in Pids : WatchdogGrace(p, TRUE, TRUE)

SpecPipes == PipesInit /\ [][PipesNext]_vars

(* --------------- termination: the calls under fair scheduling --------- *)

\* The scenarios followed to the end of every call: a reliable environment,
\* a terminate() that raises, a descendant of the child that holds stdout.
TerminatesScenarios == {"timeout", "terminate_raises", "pipe_held"}

TerminatesInit ==
    /\ \E sc \in TerminatesScenarios : NothingRunning(sc)
    /\ arg = NoArg

\* The steps of execute a scheduled thread takes by itself, lines 295-456.
Execute_Step(t) ==
    \/ Execute_Register(t)
    \/ Execute_Popen(t, TRUE)
    \/ Execute_Update(t)
    \/ Execute_ReadEOF(t)
    \/ Execute_Wait(t, TRUE, TRUE)
    \/ Execute_Finally(t)
    \/ \E output \in Outputs : Execute_Finish(t, NoPattern, output)

\* timeout_handler after time.sleep(timeout), lines 326-335.
Watchdog_Wakeup(p) ==
    \E outcome \in TerminateOutcomes, closes \in BOOLEAN :
        WatchdogTimeout(p, outcome, closes)

\* timeout_handler after time.sleep(5), lines 331-333: the forced kill ends
\* the child and closes its stdout.
Watchdog_ForcedKill(p) == WatchdogGrace(p, TRUE, TRUE)

\* The callers start runs, cancel and ask as they like; a child ends, and a
\* descendant closes the pipe, when it likes.
TerminatesNext ==
    \/ \E t \in Threads, c \in MakefileTargets : Execute_Call(t, c, TRUE)
    \/ \E t \in Threads : Execute_Step(t)
    \/ \E p \in Pids : Watchdog_Wakeup(p)
    \/ \E p \in Pids : Watchdog_ForcedKill(p)
    \/ \E p \in Pids, code \in {0, 1}, closes \in BOOLEAN : ProcExit(p, code, closes)
    \/ \E p \in Pids : ProcCloseStdout(p)
    \/ \E t \in Observers, c \in ObservedCommands : IsRunning(t, c)
    \/ \E t \in Observers, c \in ObservedCommands,
          outcome \in {"terminated", "killed"} : Kill(t, c, outcome, TRUE)

\* Every thread inside execute is scheduled again and again, and so is every
\* watchdog thread (a daemon thread whose sleeps end); nothing is assumed of
\* the children, of their descendants or of the callers.
TerminatesFairness ==
    /\ \A t \in Threads : WF_vars(Execute_Step(t))
    /\ \A p \in Pids : WF_vars(Watchdog_Wakeup(p))
    /\ \A p \in Pids : WF_vars(Watchdog_ForcedKill(p))

SpecTerminates == TerminatesInit /\ [][TerminatesNext]_vars /\ TerminatesFairness

(* ------------------------------ properties ---------------------------- *)

\* C1: of the execute calls made concurrently for one task, only one gets
\* past the "already running" check; two threads are never both between a
\* passed check and their registration of the same task.
C1_OnlyOnePassesCheck ==
    \A t, u \in Threads :
        (t # u /\ pc[t] = "register" /\ pc[u] = "register")
            => command[t] # command[u]

\* C2: in every reachable state each task has at most one live child process.
C2_AtMostOneChildPerTask ==
    \A c \in MakefileTargets :
        Cardinality({p \in Pids : proc[p].state = "alive" /\ proc[p].task = c}) <= 1

\* C3: a registry entry for a task exists only while some execute of that
\* task is between its registration and the end of its finally clause; once
\* no execute of the task is in flight the registry has no entry for it.
C3_RegistryReleased ==
    \A c \in DOMAIN running_commands :
        \E t \in Threads :
            /\ command[t] = c
            /\ pc[t] \in {"spawn", "update", "read", "wait", "finally"}

\* C3 witness: a run whose child was killed after its timeout has returned,
\* and the registry holds no entry for its task.
C3_Witness ==
    /\ ret.op = "execute"
    /\ ret.kind = "returned"
    /\ ret.watchdog_fired
    /\ ret.exit_code = Some(-9)
    /\ ret.command \notin DOMAIN running_commands
    /\ \A t \in Threads : command[t] # ret.command

\* C4: execute raises to its caller only InvalidCommand, AlreadyRunning or
\* UnknownTask; no exception of the try body is left propagating.
C4_RaisesOnlyPreconditions ==
    /\ (ret.op = "execute" /\ ret.kind = "raised")
           => ret.error \in {"InvalidCommand", "AlreadyRunning", "UnknownTask"}
    /\ \A t \in Threads : pending[t] = "none"

\* C4 witness: Popen or readline raised, and execute returned a result with
\* exit code 1 and the "Execution error" warning.
C4_Witness ==
    /\ ret.op = "execute"
    /\ ret.kind = "returned"
    /\ ret.exit_code = Some(1)
    /\ "Execution error" \in ret.warnings
    /\ ~ret.success

\* C5: a run whose child was still alive when the timeout elapsed returns
\* timeout_occurred = true, a critical failure and a timeout warning,
\* whatever exit code the child ends with.
C5_TimeoutAlwaysReported ==
    (ret.op = "execute" /\ ret.kind = "returned" /\ ret.watchdog_fired)
        => /\ ret.timeout_occurred
           /\ has_critical_failure(ret)
           /\ "Command may have been terminated due to timeout" \in ret.warnings

\* C6: once kill(T) has been called during an in-flight run of T, that run
\* has no live child process.
C6_CancelTerminatesRun ==
    \A t \in cancelled :
        process[t] # NoProcess => proc[process[t]].state # "alive"

\* C7: when kill(T) returns, true or false, the registry has no entry for T;
\* kill(T) with no entry returns false and leaves the registry unchanged.
C7_CancelEvicts ==
    [][ret'.op = "kill" =>
          /\ ret'.command \notin DOMAIN running_commands'
          /\ \A c \in DOMAIN running_commands \ {ret'.command} :
                /\ c \in DOMAIN running_commands'
                /\ running_commands'[c] = running_commands[c]
          /\ ret'.command \notin DOMAIN running_commands
                => /\ ~ret'.value
                   /\ running_commands' = running_commands]_vars

\* C7 witness: kill found a live child, ended it and returned true, and the
\* registry still holds the entry of the task.
C7_Witness ==
    /\ ret.op = "kill"
    /\ ret.value
    /\ ret.command \in DOMAIN running_commands
    /\ proc[running_commands[ret.command].process].returncode = Some(-9)

\* C8: is_running(T) returns true only if the registry has an entry for T
\* whose process handle is alive; otherwise it returns false and no entry for
\* T is left, so later calls keep returning false.
C8_IsRunningSelfHeals ==
    [][ret'.op = "is_running" =>
          LET c == ret'.command
              alive == /\ c \in DOMAIN running_commands
                       /\ running_commands[c].process # NoProcess
                       /\ proc[running_commands[c].process].state = "alive"
          IN  /\ ret'.value = alive
              /\ alive => running_commands' = running_commands
              /\ ~alive => /\ c \notin DOMAIN running_commands'
                           /\ \A d \in DOMAIN running_commands \ {c} :
                                 /\ d \in DOMAIN running_commands'
                                 /\ running_commands'[d] = running_commands[d]]_vars

\* C8 witness: the child of a registered run has exited, the run has not
\* reached its finally clause, and is_running returned false with the entry
\* removed.
C8_Witness ==
    /\ ret.op = "is_running"
    /\ ~ret.value
    /\ ret.command \notin DOMAIN running_commands
    /\ \E t \in Threads :
          /\ command[t] = ret.command
          /\ pc[t] \in {"read", "wait"}
          /\ proc[process[t]].state = "exited"
          /\ t \notin cancelled

\* C9: get_running_commands returns exactly the registered names whose
\* process is alive, and afterwards the registry's keys are that set, each
\* surviving entry unchanged.
C9_ListRunningExact ==
    [][ret'.op = "get_running_commands" =>
          LET alive == {c \in DOMAIN running_commands :
                           /\ running_commands[c].process # NoProcess
                           /\ proc[running_commands[c].process].state = "alive"}
          IN  /\ ret'.value = alive
              /\ DOMAIN running_commands' = ret'.value
              /\ \A c \in alive : running_commands'[c] = running_commands[c]]_vars

\* C9 witness: get_running_commands returned one live task while the run of
\* the other task, whose child has exited, lost its entry.
C9_Witness ==
    /\ ret.op = "get_running_commands"
    /\ Cardinality(ret.value) = 1
    /\ DOMAIN running_commands = ret.value
    /\ \E t \in Threads :
          /\ command[t] \in MakefileTargets \ ret.value
          /\ pc[t] \in {"read", "wait"}
          /\ proc[process[t]].state = "exited"

\* C10: no caller of is_running finds an entry that is registered as running
\* while its process handle is not yet set.
C10_NoHalfUpdatedEntrySeen ==
    [][ret'.op = "is_running" =>
          ~(/\ ret'.command \in DOMAIN running_commands
            /\ running_commands[ret'.command].running
            /\ running_commands[ret'.command].process = NoProcess)]_vars

\* No thread is between the append and the end of the truncation of
\* _record_execution.
NotRecording == \A t \in Threads : pc[t] \notin {"check", "slice", "assign"}

\* The seq numbers n-k+1 .. n, in order.
LatestSeqs(n, k) == [i \in 1..k |-> n - k + i]

\* C11: after N executions completed one after the other, the history holds
\* exactly the min(N, 100) most recent records, oldest first.
C11_SequentialHistory ==
    (scenario = "sequential" /\ NotRecording) =>
        LET n == next_record
            k == IF n < 100 THEN n ELSE 100
        IN  execution_history =
                [i \in 1..k |-> HistoryRecord(n - k + i, build, Some(0))]

\* C11 witness: 150 executions have completed and returned; the history holds
\* the 100 records 51..150.
C11_Witness ==
    /\ scenario = "sequential"
    /\ next_record = 150
    /\ \A t \in Threads : pc[t] = "idle"
    /\ Len(execution_history) = 100
    /\ execution_history[1].seq = 51
    /\ execution_history[100].seq = 150

\* C12: whenever no thread is in the middle of recording, the history holds
\* exactly the records of the min(k, 100) most recently recorded runs, none
\* lost and none twice, also when runs of different tasks complete concurrently.
C12_ConcurrentHistory ==
    NotRecording =>
        LET n == next_record
            k == IF n < 100 THEN n ELSE 100
        IN  [i \in 1..Len(execution_history) |-> execution_history[i].seq]
                = LatestSeqs(n, k)

\* C13: get_execution_history and the health check's history count never
\* return more than 100 records.
C13_HistoryNeverOverCapacity ==
    /\ ret.op = "get_execution_history" => Len(ret.value) <= 100
    /\ ret.op = "verify_system_health" => ret.execution_history_count <= 100

\* C19: execute of a name that fails validation raises InvalidCommand, and
\* the step that raises InvalidCommand spawns nothing and leaves the registry
\* and the history unchanged.
C19_InvalidCommandChangesNothing ==
    [][/\ \A t \in Threads : \A c \in {unsafe, empty} :
             Execute_Call(t, c, TRUE) => ret' = Raised(t, "InvalidCommand")
       /\ (ret'.op = "execute" /\ ret'.kind = "raised"
               /\ ret'.error = "InvalidCommand")
             => /\ running_commands' = running_commands
                /\ proc' = proc
                /\ process' = process
                /\ pc' = pc
                /\ execution_history' = execution_history
                /\ next_record' = next_record]_vars

\* C19 witness: InvalidCommand was raised while the run of another task is
\* registered with a live child and the history holds records.
C19_Witness ==
    /\ ret.op = "execute"
    /\ ret.kind = "raised"
    /\ ret.error = "InvalidCommand"
    /\ test \in DOMAIN running_commands
    /\ \E p \in Pids : proc[p].state = "alive"
    /\ Len(execution_history) >= 100

\* execute returned a result in the step just taken.
Returned == ret.op = "execute" /\ ret.kind = "returned"

\* The pattern, a word, occurs in the output when letters are compared
\* without regard to case.
Occurs(pattern, output) ==
    \E i \in 0..(Len(output) - Len(pattern)) :
        \A j \in 1..Len(pattern) : lower(output[i + j]) = lower(pattern[j])

\* The pattern is a word that re can compile.
IsWord(pattern) ==
    pattern # NoPattern /\ \A i \in 1..Len(pattern) : pattern[i] \in SafeChars

\* C14 as stated: verification_passed is true iff no pattern was requested
\* and the run exited 0, or a pattern was requested and occurs in the output,
\* whatever the exit code.
C14_VerificationAsStated ==
    Returned =>
        (ret.verification_passed <=>
            \/ (ret.verify_output = NoPattern /\ ret.exit_code = Some(0))
            \/ (IsWord(ret.verify_output) /\ Occurs(ret.verify_output, ret.output)))

\* C14 amended: verification_passed is true iff the run exited 0 without
\* timeout and either no pattern was requested or the requested pattern occurs
\* in the output; a run that did not exit 0 never passes verification.
C14_VerificationNeedsSuccess ==
    Returned =>
        (ret.verification_passed <=>
            /\ ret.exit_code = Some(0)
            /\ ~ret.timeout_occurred
            /\ \/ ret.verify_output = NoPattern
               \/ (IsWord(ret.verify_output) /\ Occurs(ret.verify_output, ret.output)))

\* C14 witness: the run exited 1, the requested pattern occurs in its output,
\* and verification_passed is false.
C14_Witness ==
    /\ Returned
    /\ ret.spawned
    /\ ret.exit_code = Some(1)
    /\ ret.warnings = {}
    /\ IsWord(ret.verify_output)
    /\ Occurs(ret.verify_output, ret.output)
    /\ ~ret.verification_passed

\* C15: for a run that exited 0 without timeout and with a pattern given:
\* if the pattern occurs in the output, compared case-insensitively,
\* verification_passed is true; otherwise it is false, a warning is added and
\* the result is not completely successful although success is true.
C15_VerifyPattern ==
    (Returned /\ ret.exit_code = Some(0) /\ ~ret.timeout_occurred
        /\ IsWord(ret.verify_output)) =>
        IF Occurs(ret.verify_output, ret.output)
        THEN ret.verification_passed
        ELSE /\ ~ret.verification_passed
             /\ "Output verification failed" \in ret.warnings
             /\ ~is_completely_successful(ret)
             /\ ret.success

\* C15 witness: the pattern "ok" was found in an output that spells it "Ok".
C15_Witness ==
    /\ Returned
    /\ ret.exit_code = Some(0)
    /\ ret.verify_output = <<"o", "k">>
    /\ ~Contains(ret.output, ret.verify_output)
    /\ ret.verification_passed
    /\ ret.warnings = {}

\* C16: is_completely_successful is true exactly when exit_code is 0, there
\* was no timeout, verification passed and there are no warnings; a run that
\* exited 0 with a warning is successful and not completely successful.
C16_CompletelySuccessful ==
    Returned =>
        /\ is_completely_successful(ret) <=>
              /\ ret.exit_code = Some(0)
              /\ ~ret.timeout_occurred
              /\ ret.verification_passed
              /\ ret.warnings = {}
        /\ (ret.exit_code = Some(0) /\ ret.warnings # {} /\ ~ret.timeout_occurred)
              => (ret.success /\ ~is_completely_successful(ret))

\* C16 witness: the run exited 0, a callback failed, verification passed:
\* success without complete success.
C16_Witness ==
    /\ Returned
    /\ ret.exit_code = Some(0)
    /\ ret.success
    /\ ret.verification_passed
    /\ ret.warnings = {"Callback failed"}
    /\ ~is_completely_successful(ret)

\* C17: has_critical_failure is exit_code is None or timed out or not
\* verification_passed, which for the results of execute is the same as not
\* verification_passed; a non-zero exit is a critical failure, and no result
\* is both completely successful and a critical failure.
C17_CriticalFailure ==
    Returned =>
        /\ has_critical_failure(ret) <=>
              (ret.exit_code = NoneInt \/ ret.timeout_occurred
                  \/ ~ret.verification_passed)
        /\ has_critical_failure(ret) <=> ~ret.verification_passed
        /\ ret.exit_code # Some(0) => has_critical_failure(ret)
        /\ ~(is_completely_successful(ret) /\ has_critical_failure(ret))

\* C17 witness: a run that exited 1 without timeout is a critical failure.
C17_Witness ==
    /\ Returned
    /\ ret.exit_code = Some(1)
    /\ ret.spawned
    /\ ~ret.timeout_occurred
    /\ ret.warnings = {}
    /\ has_critical_failure(ret)

\* C18 as stated: when the child cannot be spawned, execute returns a result
\* with exit_code None and a warning.
C18_SpawnFailureAsStated ==
    (Returned /\ ~ret.spawned) =>
        /\ ret.exit_code = NoneInt
        /\ ret.warnings # {}

\* C18 amended: when the child cannot be spawned, execute does not raise and
\* returns a result with exit_code 1, the "Execution error" warning, success
\* false and a critical failure.
C18_SpawnFailureReturnsOne ==
    /\ \A t \in Threads :
          (pc[t] \in {"finally", "finish"} /\ process[t] = NoProcess)
              => (pending[t] = "none" /\ exit_code[t] = Some(1))
    /\ (Returned /\ ~ret.spawned) =>
          /\ ret.exit_code = Some(1)
          /\ "Execution error" \in ret.warnings
          /\ ~ret.success
          /\ ~ret.timeout_occurred
          /\ has_critical_failure(ret)

\* C18 witness: Popen raised and execute returned a result.
C18_Witness ==
    /\ scenario = "popen_fails"
    /\ Returned
    /\ ~ret.spawned
    /\ ret.exit_code = Some(1)

\* C20: _validate_command returns true iff the value is a string of 1..100
\* characters, all of them in [A-Za-z0-9_-]; None, non-strings, the empty
\* string, a name with a trailing newline and a 101-character name are rejected.
C20_ValidateFullMatch ==
    ret.op = "validate" =>
        (ret.value <=>
            /\ arg.type = "str"
            /\ Len(arg.value) \in 1..100
            /\ \A i \in 1..Len(arg.value) : arg.value[i] \in SafeChars)

\* C20 witness: the name "build" followed by a newline has been validated.
C20_Witness ==
    /\ ret.op = "validate"
    /\ arg = [type |-> "str", value |-> build \o <<"\n">>]

\* C21: when the Makefile cannot be read the lookup answers false for every
\* name, and execute of a valid name that is not running raises UnknownTask in
\* a step that spawns nothing, registers nothing and leaves no entry for the
\* name.
C21_LookupFailsClosed ==
    [][\A t \in Threads : \A c \in CommandInputs :
          (Execute_Call(t, c, FALSE) /\ validate_command(c) /\ ~is_running_value(c))
              => /\ \A target \in CommandInputs : ~verify_makefile_target(target, FALSE)
                 /\ ret' = TargetNotFound(t, c, FALSE)
                 /\ c \notin DOMAIN running_commands'
                 /\ DOMAIN running_commands' \subseteq DOMAIN running_commands
                 /\ pc' = pc
                 /\ process' = process
                 /\ \A p \in Pids : proc'[p].state = "alive" => proc[p] = proc'[p]]_vars

\* C21 witness: execute of a target the Makefile defines raised UnknownTask
\* because the Makefile could not be read, and no entry or child exists.
C21_Witness ==
    /\ ret.op = "execute"
    /\ ret.kind = "raised"
    /\ ret.error = "UnknownTask"
    /\ ret.command = build
    /\ ~ret.makefile_read
    /\ running_commands = <<>>
    /\ \A p \in Pids : proc[p].state # "alive"

\* Every registry entry of a name other than c is the same before and after
\* the step, and no entry of another name appears.
OthersKept(c) ==
    \A d \in (DOMAIN running_commands \cup DOMAIN running_commands') \ {c} :
        /\ d \in DOMAIN running_commands
        /\ d \in DOMAIN running_commands'
        /\ running_commands'[d] = running_commands[d]

\* C24: runs of different names are independent: execute(c) raises
\* AlreadyRunning only when c itself has a live entry, and the check,
\* registration, update and clean-up of execute(c), is_running(c) and kill(c)
\* leave the entry and the child of every other name as they were.
C24_TasksIndependent ==
    [][/\ (ret'.op = "execute" /\ ret'.kind = "raised") =>
             \A t \in Threads : \A c \in CommandInputs, readable \in BOOLEAN :
                 Execute_Call(t, c, readable)
                     => /\ OthersKept(c)
                        /\ ret' = Raised(t, "AlreadyRunning")
                              => /\ c \in DOMAIN running_commands
                                 /\ running_commands[c].process # NoProcess
                                 /\ proc[running_commands[c].process].state = "alive"
       /\ \A t \in Threads :
             (pc[t] = "idle" /\ pc'[t] = "register") => OthersKept(command'[t])
       /\ \A t \in Threads :
             (pc[t] \in {"register", "update", "finally"} /\ pc'[t] # pc[t])
                 => OthersKept(command[t])
       /\ ret'.op = "is_running" => OthersKept(ret'.command)
       /\ ret'.op = "kill" =>
             /\ OthersKept(ret'.command)
             /\ \A p \in Pids :
                   (proc[p].state = "alive" /\ proc[p].task # ret'.command)
                       => proc'[p] = proc[p]]_vars

\* C24 witness: kill(build) ended the child of build and returned true while
\* the run of test is registered with its child alive.
C24_Witness ==
    /\ ret.op = "kill"
    /\ ret.command = build
    /\ ret.value
    /\ \E t \in Threads :
          /\ command[t] = build
          /\ process[t] # NoProcess
          /\ proc[process[t]].state = "exited"
    /\ test \in DOMAIN running_commands
    /\ running_commands[test].process # NoProcess
    /\ proc[running_commands[test].process].state = "alive"

\* C27: a result whose exit code is None, -15 or -9 has timeout_occurred
\* true, success false and the warning that explains it, whether or not the
\* run's watchdog fired.
C27_SignalExitIsTimeout ==
    (Returned /\ ret.exit_code \in {NoneInt, Some(-15), Some(-9)}) =>
        /\ ret.timeout_occurred
        /\ ~ret.success
        /\ "Command may have been terminated due to timeout" \in ret.warnings

\* C27 witness: no timeout elapses in this behaviour; kill() from another
\* caller ended the child with SIGTERM and the result reports a timeout.
C27_Witness ==
    /\ Returned
    /\ scenario = "race"
    /\ ret.exit_code = Some(-15)
    /\ ~ret.watchdog_fired
    /\ ret.timeout_occurred
    /\ ~ret.success

\* C28: the watchdog calls terminate() only on a child that is alive when
\* the timeout has elapsed, and kill() only on a child that is still alive
\* after the grace period that follows terminate(); it never signals a child
\* that has exited; and a step of the watchdog, also one in which terminate()
\* or kill() raises, raises nothing into execute.
C28_WatchdogTerminatesThenKills ==
    [][\A p \in Pids :
          /\ (~proc[p].watchdog_fired /\ proc'[p].watchdog_fired)
                => /\ proc[p].state = "alive"
                   /\ proc[p].watchdog = "sleeping"
                   /\ ~proc'[p].watchdog_kill
                   /\ UNCHANGED <<pc, locals, running_commands>>
                   /\ ret' = NoReturn
          /\ (~proc[p].watchdog_kill /\ proc'[p].watchdog_kill)
                => /\ proc[p].state = "alive"
                   /\ proc[p].watchdog = "grace"
                   /\ proc[p].watchdog_fired
                   /\ UNCHANGED <<pc, locals, running_commands>>
                   /\ ret' = NoReturn
          /\ (proc[p].state = "exited" /\ proc'[p].state = "exited")
                => /\ proc'[p].returncode = proc[p].returncode
                   /\ proc'[p].watchdog_fired = proc[p].watchdog_fired
                   /\ proc'[p].watchdog_kill = proc[p].watchdog_kill]_vars

\* C28 witness: the child exited by itself with 0 before the timeout, its
\* watchdog woke up afterwards and signalled nothing.
C28_Witness ==
    \E p \in Pids :
        /\ proc[p].state = "exited"
        /\ proc[p].returncode = Some(0)
        /\ proc[p].watchdog = "done"
        /\ ~proc[p].watchdog_fired
        /\ ~proc[p].watchdog_kill

\* C30: an execute call that raises InvalidCommand, AlreadyRunning or
\* UnknownTask leaves the history unchanged; a call that passed the three
\* preconditions appends one record of its task and its exit code when it
\* leaves its try statement, whatever happened to the child, and returns only
\* after that; nothing else appends.
C30_OneRecordPerRun ==
    [][/\ (ret'.op = "execute" /\ ret'.kind = "raised")
             => /\ execution_history' = execution_history
                /\ next_record' = next_record
       /\ \A t \in Threads :
             (pc[t] = "finish" /\ pc'[t] # "finish")
                 => /\ pc'[t] = "check"
                    /\ next_record' = next_record + 1
                    /\ Len(execution_history') = Len(execution_history) + 1
                    /\ execution_history'[Len(execution_history')].seq = next_record'
                    /\ execution_history'[Len(execution_history')].command = command[t]
                    /\ execution_history'[Len(execution_history')].exit_code = exit_code[t]
                    /\ record'[t] = next_record'
       /\ (\A t \in Threads : ~(pc[t] = "finish" /\ pc'[t] # "finish"))
             => /\ next_record' = next_record
                /\ Len(execution_history') <= Len(execution_history)
       /\ (ret'.op = "execute" /\ ret'.kind = "returned")
             => /\ ret'.recorded > 0
                /\ \A t \in Threads : record[t] # ret'.recorded => record'[t] = record[t]]_vars

\* C30 witness: Popen raised; execute returned exit code 1 and the last
\* record of the history is the record of that run.
C30_Witness ==
    /\ scenario = "popen_fails"
    /\ ret.op = "execute"
    /\ ret.kind = "returned"
    /\ ret.exit_code = Some(1)
    /\ "Execution error" \in ret.warnings
    /\ Len(execution_history) > 0
    /\ execution_history[Len(execution_history)].seq = ret.recorded
    /\ execution_history[Len(execution_history)].exit_code = Some(1)
    /\ ~execution_history[Len(execution_history)].success

\* The text of a line the child wrote: the line without its newline.
Text(l) == IF Terminated(l) THEN SubSeq(l, 1, Len(l) - 1) ELSE l

\* C22: at every moment of a run the calls made to the callback are the
\* texts of the first lines the child wrote, in the order written, one call
\* per line; output_lines holds these lines and at most one more, the line
\* about to be offered; and a run that read stdout to its end has offered
\* every line the child wrote.
C22_LinesInOrder ==
    /\ \A t \in Threads :
          process[t] # NoProcess =>
              LET wrote == emitted[process[t]]
              IN  /\ Len(output_lines[t]) <= Len(wrote)
                  /\ output_lines[t] = SubSeq(wrote, 1, Len(output_lines[t]))
                  /\ Len(delivered[t]) <= Len(output_lines[t])
                  /\ Len(output_lines[t]) <= Len(delivered[t]) + 1
                  /\ delivered[t] =
                         [i \in 1..Len(delivered[t]) |-> Text(output_lines[t][i])]
    /\ (ret.op = "execute" /\ ret.kind = "returned" /\ ~ret.read_error) =>
          /\ ret.output_lines = ret.emitted
          /\ ret.delivered = [i \in 1..Len(ret.emitted) |-> Text(ret.emitted[i])]

\* C22 witness: the child wrote three different lines, the last without a
\* newline, and the callback received the three texts in that order.
C22_Witness ==
    /\ ret.op = "execute"
    /\ ret.kind = "returned"
    /\ ret.emitted = << <<"b", "\n">>, <<"\n">>, <<"c">> >>
    /\ ret.delivered = << <<"b">>, <<>>, <<"c">> >>

\* C23: a callback that raises leaves one warning for each call that raised
\* and no exception; the run goes on: when it returns, every line the child
\* wrote is in the output and was offered to the callback, and the exit code
\* is the child's.
C23_CallbackFailureNotFatal ==
    /\ \A t \in Threads :
          /\ callback_warnings[t] = Cardinality(failed_calls[t])
          /\ failed_calls[t] # {} => "Callback failed" \in warnings[t]
          /\ (failed_calls[t] # {} /\ scenario = "callback_fails")
                => (pending[t] = "none" /\ "Execution error" \notin warnings[t])
    /\ (ret.op = "execute" /\ ret.kind = "returned" /\ ret.failed_calls # {}
           /\ ~ret.read_error) =>
          /\ ret.callback_warnings = Cardinality(ret.failed_calls)
          /\ "Callback failed" \in ret.warnings
          /\ ret.output_lines = ret.emitted
          /\ Len(ret.delivered) = Len(ret.emitted)
          /\ ret.exit_code = ret.returncode
          /\ ret.success <=> ret.returncode = Some(0)

\* C23 witness: the callback raised on the first and on the second of three
\* lines; the third was read and offered, and the result has exit code 0.
C23_Witness ==
    /\ ret.op = "execute"
    /\ ret.kind = "returned"
    /\ ret.failed_calls = {1, 2}
    /\ ret.callback_warnings = 2
    /\ Len(ret.delivered) = 3
    /\ Len(ret.output_lines) = 3
    /\ ret.exit_code = Some(0)

\* C26: when the working directory does not exist or holds no Makefile,
\* each of the two constructors raises and yields no executor, hence no
\* registry and no history; an executor that is constructed starts with an
\* empty registry and an empty history.
C26_ConstructionFailsFast ==
    ret.op = "construct" =>
        /\ (arg.ahab_path = "str" /\ (~arg.path_exists \/ arg.makefile = "missing"))
              => /\ ret.zero_trust.raised
                 /\ ret.plain.raised
                 /\ "executor" \notin DOMAIN ret.zero_trust
                 /\ "executor" \notin DOMAIN ret.plain
        /\ arg.ahab_path # "str" => ret.zero_trust.raised
        /\ \A c \in {ret.zero_trust, ret.plain} :
              ~c.raised => /\ c.executor.running_commands = <<>>
                           /\ c.executor.execution_history = <<>>

\* C26 witness: the directory exists and can be read, it holds no Makefile,
\* and both constructors raised ValueError.
C26_Witness ==
    /\ ret.op = "construct"
    /\ arg.ahab_path = "str"
    /\ arg.path_exists
    /\ arg.path_readable
    /\ arg.makefile = "missing"
    /\ ret.zero_trust.raised
    /\ ret.zero_trust.error = "ValueError"
    /\ ret.plain.raised
    /\ ret.plain.error = "ValueError"

\* The value is an integer greater than 0.
PositiveInteger(x) == x.type \in {"int", "bool"} /\ x.value >= 1

\* C29: the effective timeout is timeout_override when that is a positive
\* integer and the executor's default otherwise (None, 0, negative, not an
\* integer); the default of a constructed executor is a positive integer.
C29_EffectiveTimeout ==
    /\ ret.op = "effective_timeout" =>
          /\ PositiveInteger(ret.default)
          /\ PositiveInteger(ret.timeout_override) => ret.timeout = ret.timeout_override
          /\ ~PositiveInteger(ret.timeout_override) => ret.timeout = ret.default
          /\ PositiveInteger(ret.timeout)
    /\ (ret.op = "construct" /\ ~ret.zero_trust.raised)
          => PositiveInteger(ret.zero_trust.executor.timeout)
    /\ (ret.op = "construct" /\ ~PositiveInteger(arg.timeout))
          => ret.zero_trust.raised

\* C29 witness: the override 0 was given and the default 3 is in effect.
C29_Witness ==
    /\ ret.op = "effective_timeout"
    /\ ret.timeout_override = [type |-> "int", value |-> 0]
    /\ ret.default = [type |-> "int", value |-> MaxTimeout]
    /\ ret.timeout = ret.default


\* C25: get_system_status never raises: whatever ahab_path is, whether the
\* executor can be constructed, whether the Makefile has a status target,
\* however the status run ends and whatever it prints, the call returns a
\* record that holds workstation_installed, workstation_running, services
\* and last_updated.
C25_StatusNeverRaises ==
    ret.op = "get_system_status"
        => /\ ~ret.zero_trust.raised
           /\ {"workstation_installed", "workstation_running", "services",
               "last_updated"} \subseteq DOMAIN ret.zero_trust.status
           /\ ret.zero_trust.status.workstation_installed \in BOOLEAN
           /\ ret.zero_trust.status.workstation_running \in BOOLEAN

\* The status target is missing and exists() fails for .vagrant: both the
\* lookup and the fallback raised, and the record came back.
C25_Witness ==
    /\ ret.op = "get_system_status"
    /\ arg.ahab_path = "str"
    /\ ~status_executor(arg).raised
    /\ ~arg.status_target
    /\ arg.vagrant = "raises"
    /\ ~ret.zero_trust.raised
    /\ "Fallback check failed" \in ret.zero_trust.status.errors
    /\ ~ret.zero_trust.status.workstation_installed


\* The two warnings that say a fallback was used.
FallbackWarnings ==
    {"Workstation status detected via .vagrant directory (fallback)",
     "Workstation detected via filesystem check (ultimate fallback)"}

\* The status run took place and was not completely successful.
StatusRunFailed ==
    /\ ret.op = "get_system_status"
    /\ arg.ahab_path = "str"
    /\ ~status_executor(arg).raised
    /\ ~status_execute(arg).raised
    /\ ~is_completely_successful(status_execute(arg).result)

\* C31: when the status run is not fully successful, the record returned by
\* get_system_status holds a warning saying that the fallback was used,
\* whether .vagrant exists or not, and workstation_running is false.
C31_FallbackAlwaysWarns ==
    StatusRunFailed
        => /\ ret.zero_trust.status.warnings \cap FallbackWarnings # {}
           /\ ~ret.zero_trust.status.workstation_running

\* `make status` ended with 1 and there is no .vagrant: the record has the
\* error entry and no warning at all.
C31_Witness ==
    /\ StatusRunFailed
    /\ arg.exit_code = Some(1)
    /\ arg.spawned
    /\ arg.vagrant = "missing"
    /\ ret.zero_trust.status.warnings = {}
    /\ ret.zero_trust.status.errors = {"make status failed"}
    /\ ~ret.zero_trust.status.workstation_installed

\* C38: in every record returned by either get_system_status,
\* workstation_running implies workstation_installed; when the output of a
\* completely successful run is parsed, the running marker decides before
\* the stopped marker and the stopped marker before the not-created one.
C38_RunningImpliesInstalled ==
    ret.op = "get_system_status"
        => /\ \A r \in {ret.zero_trust, ret.plain} :
                  ~r.raised
                      => (r.status.workstation_running
                              => r.status.workstation_installed)
           /\ (/\ arg.ahab_path = "str"
               /\ ~status_executor(arg).raised
               /\ ~status_execute(arg).raised
               /\ is_completely_successful(status_execute(arg).result))
                  => LET st == ret.zero_trust.status
                         state == <<st.workstation_installed,
                                    st.workstation_running>>
                     IN  /\ "running" \in arg.markers => state = <<TRUE, TRUE>>
                         /\ ("stopped" \in arg.markers
                                /\ "running" \notin arg.markers)
                               => state = <<TRUE, FALSE>>
                         /\ "running" \notin arg.markers /\ "stopped" \notin arg.markers
                               => state = <<FALSE, FALSE>>

\* All three markers are in the output of a successful status run, and the
\* workstation is reported as running.
C38_Witness ==
    /\ ret.op = "get_system_status"
    /\ arg.markers = Markers
    /\ is_completely_successful(status_execute(arg).result)
    /\ ret.zero_trust.status.workstation_installed
    /\ ret.zero_trust.status.workstation_running


\* C32: in CommandExecutor, a run whose child was still running when the
\* configured timeout had passed ends with TimeoutExpired raised to the
\* caller, the child killed and the task's registry entry removed.
C32_TimeoutRaises ==
    [][\A t \in Threads :
          (/\ pc[t] = "finish"
           /\ pc'[t] = "idle"
           /\ process[t] # NoProcess
           /\ proc[process[t]].overdue)
              => /\ ret'.kind = "raised"
                 /\ ret'.error = "TimeoutExpired"
                 /\ proc[process[t]].state = "exited"
                 /\ command[t] \notin DOMAIN running_commands]_vars

\* A child that ran past the timeout with its stdout open and then ended by
\* itself with 0: execute has left the try block without an exception and
\* is about to return the exit code 0.
C32_Witness ==
    \E t \in Threads :
        /\ pc[t] = "finish"
        /\ pending[t] = "none"
        /\ exit_code[t] = Some(0)
        /\ process[t] # NoProcess
        /\ proc[process[t]].overdue
        /\ proc[process[t]].returncode = Some(0)


\* C34: every live child of an execute call that has passed its update
\* block is tracked: the registry has an entry for the call's task and the
\* entry holds the child's process handle.
C34_AliveChildTracked ==
    \A t \in Threads :
        (/\ pc[t] \in {"read", "wait"}
         /\ process[t] # NoProcess
         /\ proc[process[t]].state = "alive")
            => /\ command[t] \in DOMAIN running_commands
               /\ running_commands[command[t]].process = process[t]

\* One execute call, no kill, no fault: an observer's call between the
\* registration and the update removed the entry, the update was skipped,
\* and the child runs with no entry for its task.
C34_Witness ==
    /\ scenario = "timeout"
    /\ cancelled = {}
    /\ pc["t1"] = "read"
    /\ process["t1"] # NoProcess
    /\ proc[process["t1"]].state = "alive"
    /\ ~proc[process["t1"]].watchdog_fired
    /\ running_commands = <<>>


\* C35: the finally clause of one execute call leaves in place the entry of
\* another call that is in flight with its own handle recorded in the entry.
C35_CleanupOwnEntry ==
    [][\A t \in Threads :
          (pc[t] = "finally" /\ pc'[t] = "finish")
              => \A u \in Threads \ {t} :
                    (/\ pc[u] \in {"read", "wait"}
                     /\ process[u] # NoProcess
                     /\ command[u] \in DOMAIN running_commands
                     /\ running_commands[command[u]].process = process[u])
                        => /\ command[u] \in DOMAIN running_commands'
                           /\ running_commands'[command[u]]
                                  = running_commands[command[u]]]_vars

\* kill was called during the older call's run; the older call has passed
\* its finally clause, and the newer call of the same task, which nobody has
\* cancelled, reads the output of its live child with no entry left in the
\* registry.
C35_Witness ==
    \E t, u \in Threads :
        /\ t # u
        /\ t \in cancelled
        /\ u \notin cancelled
        /\ pc[t] = "finish"
        /\ pc[u] = "read"
        /\ command[t] = command[u]
        /\ process[u] # NoProcess
        /\ proc[process[u]].state = "alive"
        /\ command[u] \notin DOMAIN running_commands


\* The request thread u is executing its command: it has registered the
\* command in its executor and has not yet left execute.
Executing(u) ==
    pc[u] \in {"web_spawn", "web_update", "web_read", "web_finally"}

\* C33: a POST /api/execute request for a command that another request is
\* executing is answered with 409 COMMAND_RUNNING when it makes its running
\* check, and does not go on to launch a process.
C33_SecondRequestRefused ==
    [][\A t \in RequestThreads :
          (/\ pc[t] = "web_check"
           /\ pc'[t] # "web_check"
           /\ \E u \in RequestThreads \ {t} :
                  Executing(u) /\ command[u] = command[t])
              => /\ ret'.op = "api_execute"
                 /\ ret'.status = 409
                 /\ ret'.code = "COMMAND_RUNNING"
                 /\ pc'[t] = "idle"]_vars

\* Two requests for the same command are both inside execute, each with a
\* live child of its own.
C33_Witness ==
    /\ pc["t1"] = "web_read"
    /\ pc["t2"] = "web_read"
    /\ command["t1"] = command["t2"]
    /\ process["t1"] # process["t2"]
    /\ proc[process["t1"]].state = "alive"
    /\ proc[process["t2"]].state = "alive"
    /\ request_executor["t1"].running_commands[command["t1"]].process = process["t1"]
    /\ request_executor["t2"].running_commands[command["t2"]].process = process["t2"]


\* C37: a child that would end by itself within the timeout, whatever it
\* writes to stderr before it closes stdout, completes: execute returns the
\* child's own exit code and does not report a timeout.
C37_NoPipeDeadlock ==
    (ret.op = "execute" /\ ret.kind = "returned" /\ scenario = "pipes")
        => /\ ~ret.timeout_occurred
           /\ ret.exit_code \in {Some(0), Some(1)}

\* execute waits for a line of stdout while its child, alive, waits for
\* room in the stderr pipe; the watchdog has not fired yet.
C37_Witness ==
    /\ scenario = "pipes"
    /\ pc["t1"] = "read"
    /\ process["t1"] # NoProcess
    /\ proc[process["t1"]].state = "alive"
    /\ proc[process["t1"]].stdout_open
    /\ proc[process["t1"]].stderr_blocked
    /\ proc[process["t1"]].stderr_buffered = PipeCapacity
    /\ proc[process["t1"]].watchdog = "sleeping"


\* C36: every execute call that has passed its preconditions eventually
\* returns, and every registry entry is eventually removed, when every forced
\* kill ends the child and closes its stdout.
C36_CallsReturn ==
    /\ \A t \in Threads : (pc[t] # "idle") ~> (pc[t] = "idle")
    /\ \A c \in MakefileTargets :
          (c \in DOMAIN running_commands) ~> (c \notin DOMAIN running_commands)

\* The watchdog has ended and execute is still in its stdout read: the child
\* died of SIGTERM while a descendant holds the pipe, or terminate() raised
\* and the child lives.
C36_Witness ==
    /\ pc["t1"] = "read"
    /\ process["t1"] # NoProcess
    /\ proc[process["t1"]].watchdog = "done"
    /\ proc[process["t1"]].watchdog_fired
    /\ ~proc[process["t1"]].watchdog_kill
    /\ proc[process["t1"]].stdout_open
    /\ command["t1"] \in DOMAIN running_commands

====
